---- MODULE Spec2Model ----
(***************************************************************************)
(* ADio_Utils.py: host-side driver for the ADio 10-character command       *)
(* protocol over an FTDI byte-stream handle.                               *)
(*                                                                         *)
(* A command function is modelled by the trace of what it does to the      *)
(* handle: the frames it writes and the line reads it makes, in order,     *)
(* whether it ends by raising, and what it returns.  The state machine     *)
(* runs one such function at a time against a device that answers every    *)
(* frame with a reply of its own choosing, delivered byte by byte at any   *)
(* later moment.                                                           *)
(***************************************************************************)
EXTENDS Integers, Sequences, FiniteSets, TLC

\* ---------------------------------------------------------------- bounds
\* _readline's 2.0 s timeout, counted in iterations of its polling loop
TimeoutTicks == 2
\* bytes of replies that may be outstanding at once: held back by the device
\* or waiting in the handle's receive queue
MaxInFlight == 2
\* read_exact's timeout, counted in iterations of its polling loop
ReadExactTicks == 2
\* the largest size asked of read_exact
MaxSize == 3
\* data bytes the device may have on their way or queued at once
MaxStream == 3
\* the longest explicit channel list handed to _normalize_channels on its own
MaxSelLen == 3
\* the longest reply line, line-feed apart, handed to cmd_gpio_read
MaxLineLen == 3

\* ------------------------------------------------------------ characters
LF == "\n"

HexChars == <<"0","1","2","3","4","5","6","7","8","9","A","B","C","D","E","F">>

Pow2(n) == 2^n

Min(a, b) == IF a <= b THEN a ELSE b

\* Python's format(n, "X") for n >= 0: uppercase hexadecimal digits, no padding
RECURSIVE HexDigitsOf(_)
HexDigitsOf(n) ==
    IF n < 16 THEN <<HexChars[n + 1]>>
    ELSE HexDigitsOf(n \div 16) \o <<HexChars[(n % 16) + 1]>>

RECURSIVE ZeroPad(_, _)
ZeroPad(s, w) == IF Len(s) >= w THEN s ELSE ZeroPad(<<"0">> \o s, w)

\* Python's format(n, "0wX"): sign first, then zero padding up to width w
FormatX(n, w) ==
    IF n >= 0 THEN ZeroPad(HexDigitsOf(n), w)
    ELSE <<"-">> \o ZeroPad(HexDigitsOf(-n), w - 1)

\* _fmt_cmd without the zero padding of HH and DDDD: f"*{C}{HH:X}{E:X}{DDDD:X}#"
M_fmt_cmd_unpadded(C, HH, E, DDDD) ==
    LET s == <<"*">> \o C \o FormatX(HH, 1) \o FormatX(E, 1) \o FormatX(DDDD, 1) \o <<"#">>
    IN  [ok |-> Len(s) = 10, s |-> s]

\* _fmt_cmd: s = f"*{C}{HH:02X}{E:X}{DDDD:04X}#"; RuntimeError unless len(s) = 10
_fmt_cmd(C, HH, E, DDDD) ==
    LET s == <<"*">> \o C \o FormatX(HH, 2) \o FormatX(E, 1) \o FormatX(DDDD, 4) \o <<"#">>
    IN  [ok |-> Len(s) = 10, s |-> s]

\* ------------------------------------------------------ channel selectors
\* A selector argument is a str, an int or an iterable of ints.
StrSel(s)  == [t |-> "str",  s |-> s,    i |-> 0, l |-> <<>>]
IntSel(i)  == [t |-> "int",  s |-> <<>>, i |-> i, l |-> <<>>]
ListSel(l) == [t |-> "list", s |-> <<>>, i |-> 0, l |-> l]

\* str.lower() on the letters the selectors use
LowerChar(c) ==
    CASE c = "A" -> "a"
      [] c = "L" -> "l"
      [] OTHER   -> c

Lower(s) == [k \in 1..Len(s) |-> LowerChar(s[k])]

IsAll(sel) == sel.t = "str" /\ Lower(sel.s) = <<"a", "l", "l">>

DigitChars == {"0","1","2","3","4","5","6","7","8","9"}

\* int(x) for a one-character string x: a decimal digit, else ValueError (-1 here)
IntOfChar(c) ==
    IF c \in DigitChars THEN CHOOSE d \in 0..9 : HexChars[d + 1] = c ELSE -1

SeqRange(s) == {s[k] : k \in 1..Len(s)}

\* sorted(S) of a set of integers
RECURSIVE SortSet(_)
SortSet(S) ==
    IF S = {} THEN <<>>
    ELSE LET m == CHOOSE x \in S : \A y \in S : x <= y
         IN  <<m>> \o SortSet(S \ {m})

\* range(max_ch + 1) as a list
RangeList(n) == [k \in 1..n |-> k - 1]

\* _normalize_channels with "all" expanding to range(max_ch)
M_normalize_all_short(chs, max_ch) ==
    IF IsAll(chs) THEN [ok |-> TRUE, v |-> RangeList(max_ch), bad |-> 0]
    ELSE
      LET items == IF chs.t = "int" THEN <<chs.i>> ELSE
                   IF chs.t = "str" THEN [k \in 1..Len(chs.s) |-> IntOfChar(chs.s[k])]
                   ELSE chs.l
          convFails == chs.t = "str" /\ \E k \in 1..Len(chs.s) : chs.s[k] \notin DigitChars
          lst == SortSet(SeqRange(items))
          outside == {k \in 1..Len(lst) : ~(0 <= lst[k] /\ lst[k] <= max_ch)}
      IN  IF convFails THEN [ok |-> FALSE, v |-> <<>>, bad |-> -1]
          ELSE IF outside # {}
               THEN [ok |-> FALSE, v |-> <<>>,
                     bad |-> lst[CHOOSE k \in outside : \A j \in outside : k <= j]]
               ELSE [ok |-> TRUE, v |-> lst, bad |-> 0]

\* _normalize_channels: [ok, v] on return; on ValueError ok = FALSE and bad is the
\* element the message names (-1 when the message names none)
_normalize_channels(chs, max_ch) ==
    IF IsAll(chs) THEN [ok |-> TRUE, v |-> RangeList(max_ch + 1), bad |-> 0]
    ELSE
      LET items == IF chs.t = "int" THEN <<chs.i>> ELSE
                   IF chs.t = "str" THEN [k \in 1..Len(chs.s) |-> IntOfChar(chs.s[k])]
                   ELSE chs.l
          convFails == chs.t = "str" /\ \E k \in 1..Len(chs.s) : chs.s[k] \notin DigitChars
          lst == SortSet(SeqRange(items))
          outside == {k \in 1..Len(lst) : ~(0 <= lst[k] /\ lst[k] <= max_ch)}
      IN  IF convFails THEN [ok |-> FALSE, v |-> <<>>, bad |-> -1]
          ELSE IF outside # {}
               THEN [ok |-> FALSE, v |-> <<>>,
                     bad |-> lst[CHOOSE k \in outside : \A j \in outside : k <= j]]
               ELSE [ok |-> TRUE, v |-> lst, bad |-> 0]

\* m | (1 << ch)
BitSet(m, ch) == IF (m \div Pow2(ch)) % 2 = 1 THEN m ELSE m + Pow2(ch)

\* _mask_from_channels: m |= (1 << ch) for every ch of the list, in order
RECURSIVE _mask_from_channels(_)
_mask_from_channels(ch_list) ==
    IF ch_list = <<>> THEN 0
    ELSE BitSet(_mask_from_channels(Tail(ch_list)), Head(ch_list))

\* ------------------------------------------------------------------ traces
\* What a function does to the handle: steps (frames written and line reads, in
\* order), exc (it ends by raising) and ret (what it returns otherwise).
WriteStep(bytes) == [k |-> "write", f |-> bytes]

ReadStep == [k |-> "readline", f |-> <<>>]

NoRet == [kind |-> "none", cmds |-> <<>>]

StrRet(cmd) == [kind |-> "str", cmds |-> <<cmd>>]

ListRet(cmds) == [kind |-> "list", cmds |-> cmds]

KindRet(kind, cmd) == [kind |-> kind, cmds |-> <<cmd>>]

\* raise ValueError / RuntimeError
Raise == [steps |-> <<>>, exc |-> TRUE, ret |-> NoRet]

\* a; b with Python's exception propagation: b does not run when a raises
Then(a, b) ==
    IF a.exc THEN a
    ELSE [steps |-> a.steps \o b.steps, exc |-> b.exc, ret |-> b.ret]

\* "return ret" after t
Returning(t, ret) == IF t.exc THEN t ELSE [t EXCEPT !.ret = ret]

\* cmd = _fmt_cmd(...); t: the RuntimeError of _fmt_cmd ends the caller before t
WithCmd(fc, t) == IF fc.ok THEN t ELSE Raise

AsciiChars ==
    {HexChars[k] : k \in 1..16} \cup {"*", "#", "-", LF}

\* s.encode("ascii", errors="ignore"): characters outside ASCII are dropped
EncodeAscii(s) == SelectSeq(s, LAMBDA c : c \in AsciiChars)

_write_ascii(s) ==
    [steps |-> <<WriteStep(EncodeAscii(s))>>, exc |-> FALSE, ret |-> NoRet]

\* the call _readline(handle, timeout=2.0) as a step of its caller
_readline_call == [steps |-> <<ReadStep>>, exc |-> FALSE, ret |-> NoRet]

\* _send_and_read_one_line without a line read (a slip the alternation rules out)
M_send_without_read(cmd) == _write_ascii(cmd)

_send_and_read_one_line(cmd) == Then(_write_ascii(cmd), _readline_call)

RECURSIVE Flatten(_)
Flatten(ss) == IF ss = <<>> THEN <<>> ELSE Head(ss) \o Flatten(Tail(ss))

\* for c in chs: Body[c]; the list of the frames the bodies return is collected,
\* and the first body that raises ends the loop and the caller
ForEach(chs, Body) ==
    LET ts   == [k \in 1..Len(chs) |-> Body[chs[k]]]
        bad  == {k \in 1..Len(chs) : ts[k].exc}
        stop == IF bad = {} THEN Len(chs) + 1
                ELSE CHOOSE k \in bad : \A j \in bad : k <= j
        run  == Min(stop, Len(chs))
    IN  [steps |-> Flatten([k \in 1..run |-> ts[k].steps]),
         exc   |-> bad # {},
         ret   |-> IF bad # {} THEN NoRet
                   ELSE ListRet(Flatten([k \in 1..Len(chs) |-> ts[k].ret.cmds]))]

\* ------------------------------------------------------------ ADC commands
cmd_set_chunk_size(ch, chunk_size) ==
    IF ~(0 <= ch /\ ch <= 15) THEN Raise
    ELSE IF ~(0 <= chunk_size /\ chunk_size <= 2047) THEN Raise
    ELSE (LET fc_cmd == _fmt_cmd(<<"1">>, ch, 0, chunk_size)
                 cmd == fc_cmd.s
                 IN  WithCmd(fc_cmd, Returning(_send_and_read_one_line(cmd), StrRet(cmd))))

cmd_start_accumulation ==
    (LET fc_cmd == _fmt_cmd(<<"4">>, 0, 2, 0)
            cmd == fc_cmd.s
            IN  WithCmd(fc_cmd, Returning(_send_and_read_one_line(cmd), StrRet(cmd))))

\* cmd_set_chunk_num sending the count itself: field = chunk_num & 0xFFFF
M_chunk_num_not_decremented(ch, chunk_num) ==
    IF ~(0 <= ch /\ ch <= 15) THEN Raise
    ELSE IF ~(1 <= chunk_num /\ chunk_num <= 65536) THEN Raise
    ELSE (LET fc_cmd == _fmt_cmd(<<"4">>, ch, 1, chunk_num % 65536)
                 cmd == fc_cmd.s
                 IN  WithCmd(fc_cmd, Returning(_send_and_read_one_line(cmd), StrRet(cmd))))

cmd_set_chunk_num(ch, chunk_num) ==
    IF ~(0 <= ch /\ ch <= 15) THEN Raise
    ELSE IF ~(1 <= chunk_num /\ chunk_num <= 65536) THEN Raise
    ELSE (LET fc_cmd == _fmt_cmd(<<"4">>, ch, 1, (chunk_num - 1) % 65536)
                 cmd == fc_cmd.s
                 IN  WithCmd(fc_cmd, Returning(_send_and_read_one_line(cmd), StrRet(cmd))))

cmd_stop_accumulation ==
    (LET fc_cmd == _fmt_cmd(<<"4">>, 0, 3, 0)
            cmd == fc_cmd.s
            IN  WithCmd(fc_cmd, Returning(_send_and_read_one_line(cmd), StrRet(cmd))))

cmd_adc_single_sample(ch) ==
    IF ~(0 <= ch /\ ch <= 15) THEN Raise
    ELSE (LET fc_cmd == _fmt_cmd(<<"4">>, ch, 0, 0)
                 cmd == fc_cmd.s
                 IN  WithCmd(fc_cmd, Returning(Then(_write_ascii(cmd), _readline_call),
                                        KindRet("bytes", cmd))))

\* cmd_adc_chunk_request with a line read after the write
M_chunk_request_reads(ch, chunk_size) ==
    IF ~(0 <= ch /\ ch <= 15) THEN Raise
    ELSE IF ~(0 <= chunk_size /\ chunk_size <= 2047) THEN Raise
    ELSE (LET fc_cmd == _fmt_cmd(<<"4">>, ch, 1, chunk_size)
                 cmd == fc_cmd.s
                 IN  WithCmd(fc_cmd, Returning(_send_and_read_one_line(cmd), StrRet(cmd))))

\* cmd_adc_chunk_request sending its frame under ext 0x2
M_chunk_request_ext_two(ch, chunk_size) ==
    IF ~(0 <= ch /\ ch <= 15) THEN Raise
    ELSE IF ~(0 <= chunk_size /\ chunk_size <= 2047) THEN Raise
    ELSE (LET fc_cmd == _fmt_cmd(<<"4">>, ch, 2, chunk_size)
                 cmd == fc_cmd.s
                 IN  WithCmd(fc_cmd, Returning(_write_ascii(cmd), StrRet(cmd))))

cmd_adc_chunk_request(ch, chunk_size) ==
    IF ~(0 <= ch /\ ch <= 15) THEN Raise
    ELSE IF ~(0 <= chunk_size /\ chunk_size <= 2047) THEN Raise
    ELSE (LET fc_cmd == _fmt_cmd(<<"4">>, ch, 1, chunk_size)
                 cmd == fc_cmd.s
                 IN  WithCmd(fc_cmd, Returning(_write_ascii(cmd), StrRet(cmd))))

\* ------------------------------------------------------------ DAC commands
cmd_set_ldac(level) ==
    IF level \notin {0, 1} THEN Raise
    ELSE (LET fc_cmd == _fmt_cmd(<<"7">>, 0, 0, level % 16)
                 cmd == fc_cmd.s
                 IN  WithCmd(fc_cmd, Returning(_send_and_read_one_line(cmd), StrRet(cmd))))

cmd_set_ldac_mask(mask) ==
    IF ~(0 <= mask /\ mask <= 255) THEN Raise
    ELSE (LET fc_cmd == _fmt_cmd(<<"8">>, 0, 0, mask % 256)
                 cmd == fc_cmd.s
                 IN  WithCmd(fc_cmd, Returning(_send_and_read_one_line(cmd), StrRet(cmd))))

cmd_dac_set_data(ch, value) ==
    IF ~(0 <= ch /\ ch <= 8) THEN Raise
    ELSE IF ~(0 <= value /\ value <= 65535) THEN Raise
    ELSE (LET fc_cmd == _fmt_cmd(<<"6">>, ch, 1, value)
                 cmd == fc_cmd.s
                 IN  WithCmd(fc_cmd, Returning(_send_and_read_one_line(cmd), StrRet(cmd))))

cmd_dac_immediate_out(ch, value) ==
    IF ~(0 <= ch /\ ch <= 8) THEN Raise
    ELSE IF ~(0 <= value /\ value <= 65535) THEN Raise
    ELSE (LET fc_cmd == _fmt_cmd(<<"6">>, ch, 3, value)
                 cmd == fc_cmd.s
                 IN  WithCmd(fc_cmd, Returning(_send_and_read_one_line(cmd), StrRet(cmd))))

cmd_set_opamp_gain(ch, gain_code) ==
    IF ~(0 <= ch /\ ch <= 15) THEN Raise
    ELSE IF gain_code \notin {0, 1, 2, 3, 4} THEN Raise
    ELSE (LET fc_cmd == _fmt_cmd(<<"5">>, ch, 0, gain_code % 16)
                 cmd == fc_cmd.s
                 IN  WithCmd(fc_cmd, Returning(_send_and_read_one_line(cmd), StrRet(cmd))))

\* ------------------------------------------------- GPIO / PWM / encoder commands
cmd_set_gpio_dir(active_channels, input_channels) ==
    LET act == _normalize_channels(active_channels, 7)
        ins == _normalize_channels(input_channels, 7)
    IN  IF ~act.ok THEN Raise
        ELSE IF ~ins.ok THEN Raise
        ELSE (LET fc_cmd == _fmt_cmd(<<"9">>, _mask_from_channels(act.v) % 256, 0,
                              _mask_from_channels(ins.v) % 65536)
                     cmd == fc_cmd.s
                     IN  WithCmd(fc_cmd, Returning(_send_and_read_one_line(cmd), StrRet(cmd))))

\* [c for c in pwm if c in act]
PwmInAct(pwm, act) == SelectSeq(pwm, LAMBDA c : c \in SeqRange(act))

\* cmd_set_gpio_pwm_mode normalising pwm_channels only after the direction frame
M_pwm_mode_validates_late(active_channels, pwm_channels) ==
    LET act == _normalize_channels(active_channels, 7)
        pwm == _normalize_channels(pwm_channels, 7)
    IN  IF ~act.ok THEN Raise
        ELSE Then(cmd_set_gpio_dir(ListSel(act.v), ListSel(<<>>)),
                  IF ~pwm.ok THEN Raise
                  ELSE (LET fc_cmd == _fmt_cmd(<<"A">>, _mask_from_channels(act.v) % 256, 0,
                                        _mask_from_channels(PwmInAct(pwm.v, act.v)) % 65536)
                               cmd == fc_cmd.s
                               IN  WithCmd(fc_cmd, Returning(_send_and_read_one_line(cmd),
                                                      StrRet(cmd)))))

\* cmd_set_gpio_pwm_mode taking the PWM bits from pwm_channels unfiltered
M_pwm_mode_unfiltered(active_channels, pwm_channels) ==
    LET act == _normalize_channels(active_channels, 7)
        pwm == _normalize_channels(pwm_channels, 7)
    IN  IF ~act.ok THEN Raise
        ELSE IF ~pwm.ok THEN Raise
        ELSE Then(cmd_set_gpio_dir(ListSel(act.v), ListSel(<<>>)),
                  (LET fc_cmd == _fmt_cmd(<<"A">>, _mask_from_channels(act.v) % 256, 0,
                                   _mask_from_channels(pwm.v) % 65536)
                          cmd == fc_cmd.s
                          IN  WithCmd(fc_cmd, Returning(_send_and_read_one_line(cmd), StrRet(cmd)))))

cmd_set_gpio_pwm_mode(active_channels, pwm_channels) ==
    LET act == _normalize_channels(active_channels, 7)
        pwm == _normalize_channels(pwm_channels, 7)
    IN  IF ~act.ok THEN Raise
        ELSE IF ~pwm.ok THEN Raise
        ELSE Then(cmd_set_gpio_dir(ListSel(act.v), ListSel(<<>>)),
                  (LET fc_cmd == _fmt_cmd(<<"A">>, _mask_from_channels(act.v) % 256, 0,
                                   _mask_from_channels(PwmInAct(pwm.v, act.v)) % 65536)
                          cmd == fc_cmd.s
                          IN  WithCmd(fc_cmd, Returning(_send_and_read_one_line(cmd), StrRet(cmd)))))

\* cmd_set_encoder_mode sending the encoder-enable frame first
M_encoder_mode_enable_first(channels) ==
    LET chs == _normalize_channels(channels, 3)
        hh  == _mask_from_channels(chs.v) % 256
    IN  IF ~chs.ok THEN Raise
        ELSE Then((LET fc_cmd == _fmt_cmd(<<"A">>, hh, 1, 0)
                          cmd == fc_cmd.s
                          IN  WithCmd(fc_cmd, _send_and_read_one_line(cmd))),
             Then(cmd_set_gpio_dir(ListSel(chs.v), ListSel(chs.v)),
                  (LET fc_cmd == _fmt_cmd(<<"A">>, hh, 0, 0)
                          cmd == fc_cmd.s
                          IN  WithCmd(fc_cmd, Returning(_send_and_read_one_line(cmd),
                                                 StrRet(cmd))))))

cmd_set_encoder_mode(channels) ==
    LET chs == _normalize_channels(channels, 3)
        hh  == _mask_from_channels(chs.v) % 256
    IN  IF ~chs.ok THEN Raise
        ELSE Then(cmd_set_gpio_dir(ListSel(chs.v), ListSel(chs.v)),
             Then((LET fc_cmd == _fmt_cmd(<<"A">>, hh, 0, 0)
                          cmd == fc_cmd.s
                          IN  WithCmd(fc_cmd, _send_and_read_one_line(cmd))),
                  (LET fc_cmd == _fmt_cmd(<<"A">>, hh, 1, 0)
                          cmd == fc_cmd.s
                          IN  WithCmd(fc_cmd, Returning(_send_and_read_one_line(cmd),
                                                 StrRet(cmd))))))

\* _norm_enc_ch: "all" -> [0,1,2,3]; an int in 0..3 -> [ch]; anything else raises
_norm_enc_ch(ch) ==
    IF IsAll(ch) THEN [ok |-> TRUE, v |-> <<0, 1, 2, 3>>]
    ELSE IF ch.t = "int" /\ 0 <= ch.i /\ ch.i <= 3 THEN [ok |-> TRUE, v |-> <<ch.i>>]
    ELSE [ok |-> FALSE, v |-> <<>>]

_hh_from_single_ch(ch) == ch % 256

cmd_encoder_preset_hi(ch, value16) ==
    IF ~(0 <= value16 /\ value16 <= 65535) THEN Raise
    ELSE LET chs == _norm_enc_ch(ch)
         IN  IF ~chs.ok THEN Raise
             ELSE ForEach(chs.v, [c \in SeqRange(chs.v) |-> (LET fc_cmd == _fmt_cmd(<<"A">>, _hh_from_single_ch(c), 2, value16)
                            cmd == fc_cmd.s
                            IN  WithCmd(fc_cmd, Returning(_send_and_read_one_line(cmd),
                                                   StrRet(cmd))))])

cmd_encoder_preset_lo(ch, value16) ==
    IF ~(0 <= value16 /\ value16 <= 65535) THEN Raise
    ELSE LET chs == _norm_enc_ch(ch)
         IN  IF ~chs.ok THEN Raise
             ELSE ForEach(chs.v, [c \in SeqRange(chs.v) |-> (LET fc_cmd == _fmt_cmd(<<"A">>, _hh_from_single_ch(c), 3, value16)
                            cmd == fc_cmd.s
                            IN  WithCmd(fc_cmd, Returning(_send_and_read_one_line(cmd),
                                                   StrRet(cmd))))])

\* cmds = a's list + b's list, b not run when a raises
ConcatLists(a, b) ==
    IF a.exc THEN a
    ELSE [steps |-> a.steps \o b.steps,
          exc   |-> b.exc,
          ret   |-> IF b.exc THEN NoRet ELSE ListRet(a.ret.cmds \o b.ret.cmds)]

\* An int too wide for 32-bit arithmetic, held as value = hi * 65536 + lo with
\* lo in 0..65535 and hi any integer (negative for a negative value).
Big(hi, lo) == [hi |-> hi, lo |-> lo]

\* cmd_encoder_preset_32 sending the LO frames before the HI frames
M_preset_32_lo_first(ch, value32) ==
    IF ~(0 <= value32.hi /\ value32.hi <= 65535) THEN Raise
    ELSE ConcatLists(cmd_encoder_preset_lo(ch, value32.lo),
                     cmd_encoder_preset_hi(ch, value32.hi % 65536))

\* 0 <= value32 <= 0xFFFFFFFF; hi = (value32 >> 16) & 0xFFFF; lo = value32 & 0xFFFF
cmd_encoder_preset_32(ch, value32) ==
    IF ~(0 <= value32.hi /\ value32.hi <= 65535) THEN Raise
    ELSE ConcatLists(cmd_encoder_preset_hi(ch, value32.hi % 65536),
                     cmd_encoder_preset_lo(ch, value32.lo))

\* d of cmd_encoder_ctrl: bit0 = dir_invert is True, bit1 = do_reset, bit2 = load_preset
EncoderCtrlData(dir_invert, do_reset, load_preset) ==
    (IF dir_invert = "True" THEN 1 ELSE 0)
    + (IF do_reset THEN 2 ELSE 0)
    + (IF load_preset THEN 4 ELSE 0)

\* cmd_encoder_ctrl without the test of do_reset and load_preset together
M_encoder_ctrl_allows_both(channels, dir_invert, do_reset, load_preset) ==
    LET chs == _normalize_channels(channels, 3)
    IN  IF ~chs.ok THEN Raise
        ELSE ForEach(chs.v, [ch \in SeqRange(chs.v) |->
                LET fc_cmd == _fmt_cmd(<<"A">>, _hh_from_single_ch(ch), 4,
                                       EncoderCtrlData(dir_invert, do_reset, load_preset))
                IN  WithCmd(fc_cmd, Returning(_send_and_read_one_line(fc_cmd.s),
                                              StrRet(fc_cmd.s)))])

cmd_encoder_ctrl(channels, dir_invert, do_reset, load_preset) ==
    IF do_reset /\ load_preset THEN Raise
    ELSE LET chs == _normalize_channels(channels, 3)
         IN  IF ~chs.ok THEN Raise
             ELSE ForEach(chs.v, [ch \in SeqRange(chs.v) |-> (LET fc_cmd == _fmt_cmd(<<"A">>, _hh_from_single_ch(ch), 4,
                                     EncoderCtrlData(dir_invert, do_reset, load_preset))
                            cmd == fc_cmd.s
                            IN  WithCmd(fc_cmd, Returning(_send_and_read_one_line(cmd),
                                                   StrRet(cmd))))])

cmd_encoder_dir_invert(channels, invert) ==
    cmd_encoder_ctrl(channels, IF invert THEN "True" ELSE "False", FALSE, FALSE)

cmd_encoder_count_reset(channels) == cmd_encoder_ctrl(channels, "None", TRUE, FALSE)

cmd_encoder_load_preset(channels) == cmd_encoder_ctrl(channels, "None", FALSE, TRUE)

\* the loop body of cmd_pwm_set_frequency: the band test is made per channel
PwmFrequencyBody(ch, freq_hz) ==
    IF 0 <= freq_hz /\ freq_hz <= 4095
    THEN (LET fc_cmd == _fmt_cmd(<<"B">>, ch, 0, freq_hz)
                 cmd == fc_cmd.s
                 IN  WithCmd(fc_cmd, Returning(_send_and_read_one_line(cmd), StrRet(cmd))))
    ELSE IF freq_hz % 1000 = 0 /\ 0 <= freq_hz \div 1000 /\ freq_hz \div 1000 <= 97
    THEN (LET fc_cmd == _fmt_cmd(<<"B">>, ch, 0, 32768 + (freq_hz \div 1000))
                 cmd == fc_cmd.s
                 IN  WithCmd(fc_cmd, Returning(_send_and_read_one_line(cmd), StrRet(cmd))))
    ELSE Raise

cmd_pwm_set_frequency(channels, freq_hz) ==
    IF freq_hz < 0 THEN Raise
    ELSE LET chs == _normalize_channels(channels, 7)
         IN  IF ~chs.ok THEN Raise
             ELSE ForEach(chs.v, [ch \in SeqRange(chs.v) |-> PwmFrequencyBody(ch, freq_hz)])

cmd_pwm_set_data_raw(channels, dddd) ==
    IF ~(0 <= dddd /\ dddd <= 1023) THEN Raise
    ELSE LET chs == _normalize_channels(channels, 7)
         IN  IF ~chs.ok THEN Raise
             ELSE ForEach(chs.v, [ch \in SeqRange(chs.v) |-> (LET fc_cmd == _fmt_cmd(<<"C">>, ch, 0, dddd)
                            cmd == fc_cmd.s
                            IN  WithCmd(fc_cmd, Returning(_send_and_read_one_line(cmd),
                                                   StrRet(cmd))))])

\* A duty is the fraction n/d (d > 0).
Duty(n, d) == [n |-> n, d |-> d]

Abs(x) == IF x < 0 THEN -x ELSE x

\* the code of cmd_pwm_set_duty without the preference for 0x01FF around 0.5
M_DutyCode_no_snap(duty) ==
    IF duty.n = 0 THEN 0
    ELSE IF duty.n = duty.d THEN 1023
    ELSE LET ticks == (duty.n * 1024) \div duty.d
         IN  IF ticks <= 0 THEN 1
             ELSE IF ticks >= 1023 THEN 1022
             ELSE ticks

\* code of cmd_pwm_set_duty for 0 <= duty <= 1: ticks = int(duty * 1024);
\* abs(duty - 0.5) < 1/1024 is |2n - d| * 1024 < 2d
DutyCode(duty) ==
    IF duty.n = 0 THEN 0
    ELSE IF duty.n = duty.d THEN 1023
    ELSE LET ticks == (duty.n * 1024) \div duty.d
         IN  IF ticks <= 0 THEN 1
             ELSE IF ticks >= 1023 THEN 1022
             ELSE IF Abs(2 * duty.n - duty.d) * 1024 < 2 * duty.d THEN 511
             ELSE ticks

cmd_pwm_set_duty(channels, duty) ==
    IF ~(0 <= duty.n /\ duty.n <= duty.d) THEN Raise
    ELSE cmd_pwm_set_data_raw(channels, DutyCode(duty))

cmd_gpio_read ==
    (LET fc_cmd == _fmt_cmd(<<"D">>, 0, 0, 0)
            cmd == fc_cmd.s
            IN  WithCmd(fc_cmd, Returning(Then(_write_ascii(cmd), _readline_call),
                                   KindRet("gpio", cmd))))

cmd_encoder_status_read(channel) ==
    IF ~(0 <= channel /\ channel <= 3) THEN Raise
    ELSE (LET fc_cmd == _fmt_cmd(<<"D">>, channel, 1, 0)
                 cmd == fc_cmd.s
                 IN  WithCmd(fc_cmd, Returning(Then(_write_ascii(cmd), _readline_call),
                                        KindRet("dict", cmd))))

cmd_gpio_write(value) ==
    IF ~(0 <= value /\ value <= 255) THEN Raise
    ELSE (LET fc_cmd == _fmt_cmd(<<"E">>, 0, 0, value % 256)
                 cmd == fc_cmd.s
                 IN  WithCmd(fc_cmd, Returning(_send_and_read_one_line(cmd), StrRet(cmd))))

\* cmd_gpio_write_mask setting bit ch + 1 for channel ch: mask |= (2 << ch)
M_gpio_write_mask_shifted(high_channels) ==
    LET chs == _normalize_channels(high_channels, 7)
    IN  IF ~chs.ok THEN Raise
        ELSE cmd_gpio_write((2 * _mask_from_channels(chs.v)) % 256)

cmd_gpio_write_mask(high_channels) ==
    LET chs == _normalize_channels(high_channels, 7)
    IN  IF ~chs.ok THEN Raise
        ELSE cmd_gpio_write(_mask_from_channels(chs.v) % 256)

cmd_reset(mode) ==
    IF mode \notin {"all", "adc"} THEN Raise
    ELSE (LET fc_cmd == _fmt_cmd(<<"F">>, 0, 0, IF mode = "all" THEN 0 ELSE 1)
                 cmd == fc_cmd.s
                 IN  WithCmd(fc_cmd, Returning(_send_and_read_one_line(cmd), StrRet(cmd))))

cmd_reset_all == cmd_reset("all")

cmd_reset_adc_tx == cmd_reset("adc")

\* ------------------------------------------------------------------- state
VARIABLES
    pc,        \* "idle": no call in progress; "run": inside a command function;
               \* "readline": inside _readline's polling loop; "fmt": inside
               \* _fmt_cmd called on its own
    op,        \* the call in progress, or the last one: [name, a] (a: its arguments,
               \* by parameter name; enc_ch is the ch of the encoder preset
               \* functions, a selector where the ADC functions' ch is an int)
    plan,      \* the steps the call has still to make
    script,    \* the steps of the call as it started
    exc,       \* the call ends by raising once plan is empty
    retd,      \* what the call returns: [kind, cmds]
    outcome,   \* "none", "running", "returned" or "raised"
    ret,       \* the value returned: [kind, cmds, raw]
    tx,        \* the frames written to the handle by this call, in order
    rdAt,      \* rdAt[i]: the number of _readline calls made before frame i was written
    nReads,    \* _readline calls made by this call
    polled,    \* this call has asked handle.getQueueStatus()
    taken,     \* this call has taken a byte out of the receive queue
    waited,    \* ticks this call has spent inside _readline
    timedOut,  \* some line read of this call ended by the timeout
    sawBad,    \* some line read of this call returned something other than an OK line
    line,      \* _readline's bytearray
    elapsed,   \* time.time() - start of _readline, in ticks
    resp,      \* the reply the function holds in its variable resp (the callers of
               \* _send_and_read_one_line drop what it returns)
    rxq,       \* the handle's receive queue: bytes [c, own], own: sent by the device
               \* in answer to a frame of the call in progress
    pending    \* bytes the device has still to deliver

vars == <<pc, op, plan, script, exc, retd, outcome, ret, tx, rdAt, nReads, polled,
          taken, waited, timedOut, sawBad, line, elapsed, resp, rxq, pending>>

\* ------------------------------------------------------------------ device
\* What the device may send in answer to a frame: nothing, an unterminated
\* fragment, an OK line, or a line that is not OK (NG, or malformed).
Replies == {<<>>, <<"K">>, <<"K", LF>>, <<"N", LF>>}

OkLine == <<"K", LF>>

Own(bytes) == [k \in 1..Len(bytes) |-> [c |-> bytes[k], own |-> TRUE]]

Stale(q) == [k \in 1..Len(q) |-> [c |-> q[k].c, own |-> FALSE]]

Chars(q) == [k \in 1..Len(q) |-> q[k].c]

\* ----------------------------------------------------------------- returns
\* The callers of _send_and_read_one_line and _readline go on with their
\* remaining steps whatever the line was.
M_abort_on_bad_reply(r, rest) == IF Chars(r) = OkLine THEN rest ELSE <<>>

DiscardReply(r, rest) == rest

NoValue == [kind |-> "none", cmds |-> <<>>, raw |-> <<>>, value |-> 0]

\* a byte that is not valid UTF-8 (0xFF)
InvalidByte == "<FF>"

\* bytes.decode(errors="ignore"): bytes that do not decode are dropped
DecodeIgnore(bytes) == SelectSeq(bytes, LAMBDA b : b # InvalidByte)

Whitespace == {" ", LF}

\* str.strip(): leading and trailing whitespace removed
RECURSIVE Strip(_)
Strip(txt) ==
    IF txt = <<>> THEN txt
    ELSE IF Head(txt) \in Whitespace THEN Strip(Tail(txt))
    ELSE IF txt[Len(txt)] \in Whitespace THEN Strip(SubSeq(txt, 1, Len(txt) - 1))
    ELSE txt

\* str.upper() on the letters the replies use
UpperChar(c) ==
    CASE c = "a" -> "A" [] c = "b" -> "B" [] c = "c" -> "C" [] c = "d" -> "D"
      [] c = "e" -> "E" [] c = "f" -> "F" [] c = "g" -> "G"
      [] OTHER   -> c

Upper(txt) == [k \in 1..Len(txt) |-> UpperChar(txt[k])]

\* int(s, 16) for a string of the characters 0-9, A-F
RECURSIVE IntBase16(_)
IntBase16(hx) ==
    IF hx = <<>> THEN 0
    ELSE 16 * IntBase16(SubSeq(hx, 1, Len(hx) - 1))
         + ((CHOOSE k \in 1..16 : HexChars[k] = hx[Len(hx)]) - 1)

\* the value of cmd_gpio_read taken from the first two hexadecimal characters
M_GpioValue_first_two(reply) ==
    LET txt == IF reply # <<>> THEN Upper(Strip(DecodeIgnore(reply))) ELSE <<>>
        hx  == SelectSeq(txt, LAMBDA c : \E k \in 1..16 : HexChars[k] = c)
    IN  IF Len(hx) >= 2 THEN IntBase16(SubSeq(hx, 1, 2)) ELSE -1

\* the value cmd_gpio_read parses out of the reply: int(hx[-2:], 16) when the text
\* holds two hexadecimal characters or more, else -1
GpioValue(reply) ==
    LET txt == IF reply # <<>> THEN Upper(Strip(DecodeIgnore(reply))) ELSE <<>>
        hx  == SelectSeq(txt, LAMBDA c : \E k \in 1..16 : HexChars[k] = c)
    IN  IF Len(hx) >= 2 THEN IntBase16(SubSeq(hx, Len(hx) - 1, Len(hx))) ELSE -1

\* cmd_adc_single_sample, cmd_gpio_read and cmd_encoder_status_read assign
\* resp = _readline(...) and build their result from it
KeepsReply(rd) == rd.kind \in {"bytes", "gpio", "dict"}

\* the value a call returns: its frame or list of frames, and the reply for the
\* functions that return it
ReturnValue(rd, r) ==
    [kind  |-> rd.kind, cmds |-> rd.cmds,
     raw   |-> IF KeepsReply(rd) THEN Chars(r) ELSE <<>>,
     value |-> IF rd.kind = "gpio" THEN GpioValue(Chars(r)) ELSE 0]

\* the arguments of a function that takes the handle alone
NoArgs == [handle |-> "handle"]

\* ------------------------------------------------------------------ actions
Init ==
    /\ pc = "idle"
    /\ op = [name |-> "none", a |-> NoArgs]
    /\ plan = <<>> /\ script = <<>> /\ exc = FALSE /\ retd = NoRet
    /\ outcome = "none" /\ ret = NoValue
    /\ tx = <<>> /\ rdAt = <<>> /\ nReads = 0
    /\ polled = FALSE /\ taken = FALSE /\ waited = 0 /\ timedOut = FALSE /\ sawBad = FALSE
    /\ line = <<>> /\ elapsed = 0 /\ resp = <<>>
    /\ rxq = <<>> /\ pending = <<>>

\* The caller enters command function `name` with arguments `args`; t is its trace.
Call(name, args, t) ==
    /\ pc = "idle"
    /\ pc' = "run"
    /\ op' = [name |-> name, a |-> args]
    /\ plan' = t.steps /\ script' = t.steps /\ exc' = t.exc /\ retd' = t.ret
    /\ outcome' = "running" /\ ret' = NoValue
    /\ tx' = <<>> /\ rdAt' = <<>> /\ nReads' = 0
    /\ polled' = FALSE /\ taken' = FALSE /\ waited' = 0 /\ timedOut' = FALSE
    /\ sawBad' = FALSE
    /\ line' = <<>> /\ elapsed' = 0 /\ resp' = <<>>
    /\ rxq' = Stale(rxq) /\ pending' = Stale(pending)

\* handle.write(frame): the device receives the frame and chooses its answer
WriteFrame ==
    /\ pc = "run" /\ plan # <<>> /\ Head(plan).k = "write"
    /\ tx' = Append(tx, Head(plan).f)
    /\ rdAt' = Append(rdAt, nReads)
    /\ plan' = Tail(plan)
    /\ \E r \in Replies :
          /\ Len(rxq) + Len(pending) + Len(r) <= MaxInFlight
          /\ pending' = pending \o Own(r)
    /\ UNCHANGED <<pc, op, script, exc, retd, outcome, ret, nReads, polled, taken,
                   waited, timedOut, sawBad, line, elapsed, resp, rxq>>

\* _readline is entered: line = bytearray(); start = time.time()
StartReadline ==
    /\ pc = "run" /\ plan # <<>> /\ Head(plan).k = "readline"
    /\ pc' = "readline"
    /\ plan' = Tail(plan)
    /\ nReads' = nReads + 1
    /\ line' = <<>> /\ elapsed' = 0
    /\ UNCHANGED <<op, script, exc, retd, outcome, ret, tx, rdAt, polled, taken,
                   waited, timedOut, sawBad, resp, rxq, pending>>

\* _readline returns r to its caller
ReadlineReturns(r, expired) ==
    /\ pc' = "run"
    /\ resp' = IF KeepsReply(retd) THEN r ELSE resp
    /\ plan' = DiscardReply(r, plan)
    /\ sawBad' = (sawBad \/ Chars(r) # OkLine)
    /\ timedOut' = (timedOut \/ expired)

\* _readline's loop with a clock that stands still while it sleeps
M_ReadlinePoll_clock_stands_still ==
    /\ pc = "readline" /\ elapsed < TimeoutTicks
    /\ polled' = TRUE
    /\ IF Len(rxq) > 0
       THEN /\ rxq' = Tail(rxq)
            /\ line' = Append(line, Head(rxq))
            /\ taken' = TRUE
            /\ IF Head(rxq).c = LF
               THEN /\ ReadlineReturns(Append(line, Head(rxq)), FALSE)
                    /\ UNCHANGED <<elapsed, waited>>
               ELSE /\ elapsed' = elapsed + 1
                    /\ waited' = waited + 1
                    /\ UNCHANGED <<pc, resp, plan, sawBad, timedOut>>
       ELSE /\ UNCHANGED <<elapsed, waited>>
            /\ UNCHANGED <<pc, resp, plan, sawBad, timedOut, rxq, line, taken>>
    /\ UNCHANGED <<op, script, exc, retd, outcome, ret, tx, rdAt, nReads, pending>>

\* _readline's loop reading everything that is queued: handle.read(n) for the n of
\* getQueueStatus()
M_ReadlinePoll_reads_all ==
    /\ pc = "readline" /\ elapsed < TimeoutTicks
    /\ polled' = TRUE
    /\ IF Len(rxq) > 0
       THEN /\ rxq' = <<>>
            /\ line' = line \o rxq
            /\ taken' = TRUE
            /\ IF \E k \in 1..Len(rxq) : rxq[k].c = LF
               THEN /\ ReadlineReturns(line \o rxq, FALSE)
                    /\ UNCHANGED <<elapsed, waited>>
               ELSE /\ elapsed' = elapsed + 1
                    /\ waited' = waited + 1
                    /\ UNCHANGED <<pc, resp, plan, sawBad, timedOut>>
       ELSE /\ elapsed' = elapsed + 1
            /\ waited' = waited + 1
            /\ UNCHANGED <<pc, resp, plan, sawBad, timedOut, rxq, line, taken>>
    /\ UNCHANGED <<op, script, exc, retd, outcome, ret, tx, rdAt, nReads, pending>>

\* one iteration of _readline's loop, entered while time.time() - start < timeout:
\* a queued byte is read and appended (a line-feed ends the loop), else sleep
ReadlinePoll ==
    /\ pc = "readline" /\ elapsed < TimeoutTicks
    /\ polled' = TRUE
    /\ IF Len(rxq) > 0
       THEN /\ rxq' = Tail(rxq)
            /\ line' = Append(line, Head(rxq))
            /\ taken' = TRUE
            /\ IF Head(rxq).c = LF
               THEN /\ ReadlineReturns(Append(line, Head(rxq)), FALSE)
                    /\ UNCHANGED <<elapsed, waited>>
               ELSE /\ elapsed' = elapsed + 1
                    /\ waited' = waited + 1
                    /\ UNCHANGED <<pc, resp, plan, sawBad, timedOut>>
       ELSE /\ elapsed' = elapsed + 1
            /\ waited' = waited + 1
            /\ UNCHANGED <<pc, resp, plan, sawBad, timedOut, rxq, line, taken>>
    /\ UNCHANGED <<op, script, exc, retd, outcome, ret, tx, rdAt, nReads, pending>>

\* the loop test fails: the timeout has elapsed, return bytes(line)
ReadlineExpire ==
    /\ pc = "readline" /\ elapsed >= TimeoutTicks
    /\ ReadlineReturns(line, TRUE)
    /\ UNCHANGED <<op, script, exc, retd, outcome, ret, tx, rdAt, nReads, polled,
                   taken, waited, line, elapsed, rxq, pending>>

\* the command function returns to its caller, or raises
Finish ==
    /\ pc = "run" /\ plan = <<>>
    /\ pc' = "idle"
    /\ outcome' = IF exc THEN "raised" ELSE "returned"
    /\ ret' = IF exc THEN NoValue ELSE ReturnValue(retd, resp)
    /\ UNCHANGED <<op, plan, script, exc, retd, tx, rdAt, nReads, polled, taken,
                   waited, timedOut, sawBad, line, elapsed, resp, rxq, pending>>

\* the device delivers its next byte into the handle's receive queue
DeviceDeliver ==
    /\ pending # <<>>
    /\ rxq' = Append(rxq, Head(pending))
    /\ pending' = Tail(pending)
    /\ UNCHANGED <<pc, op, plan, script, exc, retd, outcome, ret, tx, rdAt, nReads,
                   polled, taken, waited, timedOut, sawBad, line, elapsed, resp>>

\* ------------------------------------------------------- the caller's inputs
SelAll == StrSel(<<"a", "l", "l">>)

SelAllUpper == StrSel(<<"A", "L", "L">>)

\* selectors for the GPIO functions (channels 0..7)
GpioSels == {SelAll, IntSel(1), IntSel(8), ListSel(<<2, 0, 2>>)}

\* second selectors of the two-selector GPIO functions
GpioSels2 == {SelAll, IntSel(8), ListSel(<<>>), ListSel(<<2, 3>>)}

\* selectors for the per-channel PWM functions (channels 0..7)
PwmSels == {IntSel(1), IntSel(8), ListSel(<<>>), ListSel(<<2, 0, 2>>)}

\* selectors for the encoder functions (channels 0..3)
EncSels == {SelAllUpper, IntSel(3), IntSel(4), ListSel(<<>>), ListSel(<<3, 1>>)}

\* ch arguments of the encoder preset functions
PresetChs == {SelAll, IntSel(2), IntSel(4), ListSel(<<1>>)}


AdcChs == {15, 16}

DacChs == {8, 9}

Words == {65535, 65536}

ChunkSizes == {0, 2047, 2048}

ChunkNums == {0, 1, 65536, 65537}

Values32 == {Big(4660, 43981), Big(65535, 65535), Big(65536, 0), Big(-1, 65535)}

\* the calls of cmd_encoder_preset_32: "all" with one value, single channels with each value
Preset32Args ==
    {<<SelAll, Big(4660, 43981)>>, <<SelAll, Big(-1, 65535)>>}
    \cup {<<ch, v>> : ch \in {IntSel(2), IntSel(4), ListSel(<<1>>)}, v \in Values32}

Freqs == {-1, 0, 4095, 4096, 5000, 97000, 97500}

Duties == {Duty(0, 1), Duty(1, 10), Duty(1, 2), Duty(1, 1), Duty(3, 2)}

Call_cmd_set_chunk_size ==
    \E ch \in AdcChs, n \in ChunkSizes :
        Call("cmd_set_chunk_size", [ch |-> ch, chunk_size |-> n], cmd_set_chunk_size(ch, n))

Call_cmd_start_accumulation ==
    Call("cmd_start_accumulation", NoArgs, cmd_start_accumulation)

Call_cmd_set_chunk_num ==
    \E ch \in AdcChs, n \in ChunkNums :
        Call("cmd_set_chunk_num", [ch |-> ch, chunk_num |-> n], cmd_set_chunk_num(ch, n))

Call_cmd_stop_accumulation ==
    Call("cmd_stop_accumulation", NoArgs, cmd_stop_accumulation)

Call_cmd_adc_single_sample ==
    \E ch \in AdcChs : Call("cmd_adc_single_sample", [ch |-> ch], cmd_adc_single_sample(ch))

Call_cmd_adc_chunk_request ==
    \E ch \in AdcChs, n \in ChunkSizes :
        Call("cmd_adc_chunk_request", [ch |-> ch, chunk_size |-> n], cmd_adc_chunk_request(ch, n))

Call_cmd_set_ldac ==
    \E level \in {0, 1, 2} : Call("cmd_set_ldac", [level |-> level], cmd_set_ldac(level))

Call_cmd_set_ldac_mask ==
    \E mask \in {0, 255, 256} :
        Call("cmd_set_ldac_mask", [mask |-> mask], cmd_set_ldac_mask(mask))

Call_cmd_dac_set_data ==
    \E ch \in DacChs, v \in Words :
        Call("cmd_dac_set_data", [ch |-> ch, value |-> v], cmd_dac_set_data(ch, v))

Call_cmd_dac_immediate_out ==
    \E ch \in DacChs, v \in Words :
        Call("cmd_dac_immediate_out", [ch |-> ch, value |-> v], cmd_dac_immediate_out(ch, v))

Call_cmd_set_opamp_gain ==
    \E ch \in AdcChs, g \in {0, 4, 5} :
        Call("cmd_set_opamp_gain", [ch |-> ch, gain_code |-> g], cmd_set_opamp_gain(ch, g))

Call_cmd_set_gpio_dir ==
    \E act \in GpioSels, ins \in GpioSels2 :
        Call("cmd_set_gpio_dir",
             [active_channels |-> act, input_channels |-> ins], cmd_set_gpio_dir(act, ins))

Call_cmd_set_gpio_pwm_mode ==
    \E act \in GpioSels, pwm \in GpioSels2 :
        Call("cmd_set_gpio_pwm_mode",
             [active_channels |-> act, pwm_channels |-> pwm], cmd_set_gpio_pwm_mode(act, pwm))

Call_cmd_set_encoder_mode ==
    \E chs \in EncSels : Call("cmd_set_encoder_mode", [channels |-> chs], cmd_set_encoder_mode(chs))

Call_cmd_encoder_preset_hi ==
    \E ch \in PresetChs, v \in Words :
        Call("cmd_encoder_preset_hi", [enc_ch |-> ch, value16 |-> v], cmd_encoder_preset_hi(ch, v))

Call_cmd_encoder_preset_lo ==
    \E ch \in PresetChs, v \in Words :
        Call("cmd_encoder_preset_lo", [enc_ch |-> ch, value16 |-> v], cmd_encoder_preset_lo(ch, v))

Call_cmd_encoder_preset_32 ==
    \E a \in Preset32Args :
        Call("cmd_encoder_preset_32", [enc_ch |-> a[1], value32 |-> a[2]],
             cmd_encoder_preset_32(a[1], a[2]))

Call_cmd_encoder_ctrl ==
    \E chs \in {IntSel(4), ListSel(<<3, 1>>)}, inv \in {"None", "True", "False"},
       rst \in BOOLEAN, pre \in BOOLEAN :
        Call("cmd_encoder_ctrl",
             [channels |-> chs, dir_invert |-> inv, do_reset |-> rst, load_preset |-> pre],
             cmd_encoder_ctrl(chs, inv, rst, pre))

Call_cmd_encoder_dir_invert ==
    \E chs \in {IntSel(3), ListSel(<<>>)}, inv \in BOOLEAN :
        Call("cmd_encoder_dir_invert", [channels |-> chs, invert |-> inv], cmd_encoder_dir_invert(chs, inv))

Call_cmd_encoder_count_reset ==
    \E chs \in {IntSel(0), IntSel(4)} :
        Call("cmd_encoder_count_reset", [channels |-> chs], cmd_encoder_count_reset(chs))

Call_cmd_encoder_load_preset ==
    \E chs \in {IntSel(0), IntSel(4)} :
        Call("cmd_encoder_load_preset", [channels |-> chs], cmd_encoder_load_preset(chs))

Call_cmd_pwm_set_frequency ==
    \E chs \in PwmSels, f \in Freqs :
        Call("cmd_pwm_set_frequency", [channels |-> chs, freq_hz |-> f], cmd_pwm_set_frequency(chs, f))

Call_cmd_pwm_set_data_raw ==
    \E chs \in PwmSels, d \in {0, 1023, 1024} :
        Call("cmd_pwm_set_data_raw", [channels |-> chs, dddd |-> d], cmd_pwm_set_data_raw(chs, d))

Call_cmd_pwm_set_duty ==
    \E chs \in PwmSels, d \in Duties :
        Call("cmd_pwm_set_duty", [channels |-> chs, duty |-> d], cmd_pwm_set_duty(chs, d))

Call_cmd_gpio_read == Call("cmd_gpio_read", NoArgs, cmd_gpio_read)

Call_cmd_encoder_status_read ==
    \E ch \in {0, 3, 4} :
        Call("cmd_encoder_status_read", [channel |-> ch], cmd_encoder_status_read(ch))

Call_cmd_gpio_write ==
    \E v \in {0, 255, 256} : Call("cmd_gpio_write", [value |-> v], cmd_gpio_write(v))

Call_cmd_gpio_write_mask ==
    \E chs \in GpioSels : Call("cmd_gpio_write_mask", [high_channels |-> chs], cmd_gpio_write_mask(chs))

Call_cmd_reset ==
    \E mode \in {"all", "adc", "dac"} : Call("cmd_reset", [mode |-> mode], cmd_reset(mode))

Call_cmd_reset_all == Call("cmd_reset_all", NoArgs, cmd_reset_all)

Call_cmd_reset_adc_tx == Call("cmd_reset_adc_tx", NoArgs, cmd_reset_adc_tx)

Next ==
    \/ Call_cmd_set_chunk_size
    \/ Call_cmd_start_accumulation
    \/ Call_cmd_set_chunk_num
    \/ Call_cmd_stop_accumulation
    \/ Call_cmd_adc_single_sample
    \/ Call_cmd_adc_chunk_request
    \/ Call_cmd_set_ldac
    \/ Call_cmd_set_ldac_mask
    \/ Call_cmd_dac_set_data
    \/ Call_cmd_dac_immediate_out
    \/ Call_cmd_set_opamp_gain
    \/ Call_cmd_set_gpio_dir
    \/ Call_cmd_set_gpio_pwm_mode
    \/ Call_cmd_set_encoder_mode
    \/ Call_cmd_encoder_preset_hi
    \/ Call_cmd_encoder_preset_lo
    \/ Call_cmd_encoder_preset_32
    \/ Call_cmd_encoder_ctrl
    \/ Call_cmd_encoder_dir_invert
    \/ Call_cmd_encoder_count_reset
    \/ Call_cmd_encoder_load_preset
    \/ Call_cmd_pwm_set_frequency
    \/ Call_cmd_pwm_set_data_raw
    \/ Call_cmd_pwm_set_duty
    \/ Call_cmd_gpio_read
    \/ Call_cmd_encoder_status_read
    \/ Call_cmd_gpio_write
    \/ Call_cmd_gpio_write_mask
    \/ Call_cmd_reset
    \/ Call_cmd_reset_all
    \/ Call_cmd_reset_adc_tx
    \/ WriteFrame
    \/ StartReadline
    \/ ReadlinePoll
    \/ ReadlineExpire
    \/ Finish
    \/ DeviceDeliver

Spec == Init /\ [][Next]_vars

\* The Python interpreter keeps running the function it is in: the steps of a call
\* in progress are taken; nothing obliges the caller to make another call or the
\* device to deliver.
Program == WriteFrame \/ StartReadline \/ ReadlinePoll \/ ReadlineExpire \/ Finish

FairSpec == Spec /\ WF_vars(Program)

\* ------------------------------------------------------- _fmt_cmd on its own
\* The frame formatter applied to arguments inside and outside its field widths.
FmtCodes == {HexChars[k] : k \in 1..16}

FmtSubs == {0, 10, 255, 256}

FmtExts == {0, 9, 10, 15, 16}

FmtDatas == {0, 255, 4096, 43981, 65535, 65536}

Call_fmt_cmd ==
    /\ pc = "idle"
    /\ pc' = "fmt"
    /\ \E C \in FmtCodes, HH \in FmtSubs, E \in FmtExts, DDDD \in FmtDatas :
          op' = [name |-> "_fmt_cmd", a |-> [C |-> C, HH |-> HH, E |-> E, DDDD |-> DDDD]]
    /\ outcome' = "running" /\ ret' = NoValue
    /\ UNCHANGED <<plan, script, exc, retd, tx, rdAt, nReads, polled, taken, waited,
                   timedOut, sawBad, line, elapsed, resp, rxq, pending>>

Return_fmt_cmd ==
    /\ pc = "fmt"
    /\ pc' = "idle"
    /\ LET r == _fmt_cmd(<<op.a.C>>, op.a.HH, op.a.E, op.a.DDDD)
       IN  /\ outcome' = IF r.ok THEN "returned" ELSE "raised"
           /\ ret' = IF r.ok THEN [kind |-> "str", cmds |-> <<r.s>>, raw |-> <<>>, value |-> 0]
                     ELSE NoValue
    /\ UNCHANGED <<op, plan, script, exc, retd, tx, rdAt, nReads, polled, taken, waited,
                   timedOut, sawBad, line, elapsed, resp, rxq, pending>>

FmtNext == Call_fmt_cmd \/ Return_fmt_cmd

FmtSpec == Init /\ [][FmtNext]_vars

\* ------------------------------------------------------ read_exact on its own
\* read_exact(handle, size, timeout) against a device that streams data bytes.
\* The local buf is kept in `line`, time.time() - start in `elapsed`.

\* the device puts one more data byte on its way to the host
DeviceStream ==
    /\ Len(rxq) + Len(pending) < MaxStream
    /\ \E c \in {"0", "1"} : pending' = Append(pending, [c |-> c, own |-> TRUE])
    /\ UNCHANGED <<pc, op, plan, script, exc, retd, outcome, ret, tx, rdAt, nReads,
                   polled, taken, waited, timedOut, sawBad, line, elapsed, resp, rxq>>

\* read_exact is entered: buf = bytearray(); start = time.time()
Call_read_exact ==
    /\ pc = "idle"
    /\ pc' = "read_exact"
    /\ \E size \in 0..MaxSize : op' = [name |-> "read_exact", a |-> [size |-> size]]
    /\ outcome' = "running" /\ ret' = NoValue
    /\ line' = <<>> /\ elapsed' = 0
    /\ polled' = FALSE /\ taken' = FALSE /\ timedOut' = FALSE
    /\ UNCHANGED <<plan, script, exc, retd, tx, rdAt, nReads, waited, sawBad, resp,
                   rxq, pending>>

\* read_exact's loop reading everything that is queued: handle.read(n)
M_ReadExactPoll_reads_all ==
    /\ pc = "read_exact" /\ Len(line) < op.a.size /\ ~(elapsed > ReadExactTicks)
    /\ polled' = TRUE
    /\ elapsed' = elapsed + 1
    /\ IF Len(rxq) > 0
       THEN /\ line' = line \o rxq
            /\ rxq' = <<>>
            /\ taken' = TRUE
       ELSE UNCHANGED <<line, rxq, taken>>
    /\ UNCHANGED <<pc, op, plan, script, exc, retd, outcome, ret, tx, rdAt, nReads,
                   waited, timedOut, sawBad, resp, pending>>

\* one iteration of the loop past the timeout test: min(size - len(buf), n) queued
\* bytes are read and appended, or the function sleeps
ReadExactPoll ==
    /\ pc = "read_exact" /\ Len(line) < op.a.size /\ ~(elapsed > ReadExactTicks)
    /\ polled' = TRUE
    /\ elapsed' = elapsed + 1
    /\ IF Len(rxq) > 0
       THEN LET to_read == Min(op.a.size - Len(line), Len(rxq))
            IN  /\ line' = line \o SubSeq(rxq, 1, to_read)
                /\ rxq' = SubSeq(rxq, to_read + 1, Len(rxq))
                /\ taken' = TRUE
       ELSE UNCHANGED <<line, rxq, taken>>
    /\ UNCHANGED <<pc, op, plan, script, exc, retd, outcome, ret, tx, rdAt, nReads,
                   waited, timedOut, sawBad, resp, pending>>

\* read_exact handing the bytes it collected to its caller at the timeout
M_ReadExactTimeout_returns_buf ==
    /\ pc = "read_exact" /\ Len(line) < op.a.size /\ elapsed > ReadExactTicks
    /\ pc' = "idle"
    /\ outcome' = "returned"
    /\ timedOut' = TRUE
    /\ ret' = [kind |-> "bytes", cmds |-> <<>>, raw |-> Chars(line)]
    /\ UNCHANGED <<op, plan, script, exc, retd, tx, rdAt, nReads, polled, taken,
                   waited, sawBad, line, elapsed, resp, rxq, pending>>

\* the timeout test succeeds before size bytes are in buf: return None (buf, kept
\* here in `line`, goes out of scope with the bytes it holds)
ReadExactTimeout ==
    /\ pc = "read_exact" /\ Len(line) < op.a.size /\ elapsed > ReadExactTicks
    /\ pc' = "idle"
    /\ outcome' = "returned"
    /\ timedOut' = TRUE
    /\ ret' = [kind |-> "None", cmds |-> <<>>, raw |-> <<>>]
    /\ UNCHANGED <<op, plan, script, exc, retd, tx, rdAt, nReads, polled, taken,
                   waited, sawBad, line, elapsed, resp, rxq, pending>>

\* the loop ends with size bytes in buf: return bytes(buf)
ReadExactReturn ==
    /\ pc = "read_exact" /\ ~(Len(line) < op.a.size)
    /\ pc' = "idle"
    /\ outcome' = "returned"
    /\ ret' = [kind |-> "bytes", cmds |-> <<>>, raw |-> Chars(line)]
    /\ UNCHANGED <<op, plan, script, exc, retd, tx, rdAt, nReads, polled, taken,
                   waited, timedOut, sawBad, line, elapsed, resp, rxq, pending>>

ReadExactNext ==
    \/ Call_read_exact
    \/ ReadExactPoll
    \/ ReadExactTimeout
    \/ ReadExactReturn
    \/ DeviceStream
    \/ DeviceDeliver

ReadExactSpec == Init /\ [][ReadExactNext]_vars

\* --------------------------------------------- _normalize_channels on its own
\* The normalizer applied to selectors of every type its signature admits.
NormStrs ==
    {<<"a", "l", "l">>, <<"A", "L", "L">>, <<"A", "l", "l">>,
     <<>>, <<"9">>, <<"1", "2">>, <<"2", "1", "2">>, <<"1", "a">>, <<"a", "l">>}

NormInts == {-1, 0, 3, 7, 8}

NormElems == {-1, 0, 2, 3, 8}

\* the lists of up to MaxSelLen elements
NormLists == UNION {[1..n -> NormElems] : n \in 0..MaxSelLen}

NormSels ==
    {StrSel(x) : x \in NormStrs} \cup {IntSel(i) : i \in NormInts}
    \cup {ListSel(l) : l \in NormLists}

NormBounds == {0, 3, 7}

Call_normalize_channels ==
    /\ pc = "idle"
    /\ pc' = "normalize"
    /\ \E chs \in NormSels, max_ch \in NormBounds :
          op' = [name |-> "_normalize_channels", a |-> [chs |-> chs, max_ch |-> max_ch]]
    /\ outcome' = "running" /\ ret' = NoValue
    /\ UNCHANGED <<plan, script, exc, retd, tx, rdAt, nReads, polled, taken, waited,
                   timedOut, sawBad, line, elapsed, resp, rxq, pending>>

\* the list returned, or the ValueError and the element its message names
Return_normalize_channels ==
    /\ pc = "normalize"
    /\ pc' = "idle"
    /\ LET r == _normalize_channels(op.a.chs, op.a.max_ch)
       IN  /\ outcome' = IF r.ok THEN "returned" ELSE "raised"
           /\ ret' = [kind |-> "channels", v |-> r.v, bad |-> r.bad]
    /\ UNCHANGED <<op, plan, script, exc, retd, tx, rdAt, nReads, polled, taken, waited,
                   timedOut, sawBad, line, elapsed, resp, rxq, pending>>

NormNext == Call_normalize_channels \/ Return_normalize_channels

NormSpec == Init /\ [][NormNext]_vars

\* ------------------------------------------- commands against a silent device
\* The command functions called over wider ranges of their arguments, against a
\* device that does not answer: every line read ends by the timeout.

\* handle.write(frame), the device sending nothing back
WriteFrameUnanswered ==
    /\ pc = "run" /\ plan # <<>> /\ Head(plan).k = "write"
    /\ tx' = Append(tx, Head(plan).f)
    /\ rdAt' = Append(rdAt, nReads)
    /\ plan' = Tail(plan)
    /\ UNCHANGED <<pc, op, script, exc, retd, outcome, ret, nReads, polled, taken,
                   waited, timedOut, sawBad, line, elapsed, resp, rxq, pending>>

\* duties on the grids n/2048 and n/10, a little beyond [0, 1] on both sides
DutyGrid ==
    {Duty(n, 2048) : n \in -1..2049} \cup {Duty(n, 10) : n \in -1..11}

\* the calls of cmd_pwm_set_duty: one channel with every duty of the grid, two
\* channels with a few
DutyCalls ==
    {<<IntSel(5), d>> : d \in DutyGrid}
    \cup {<<ListSel(<<6, 1>>), d>> : d \in {Duty(1025, 2048), Duty(0, 10), Duty(11, 10)}}

Call_cmd_pwm_set_duty_grid ==
    \E c \in DutyCalls :
        Call("cmd_pwm_set_duty", [channels |-> c[1], duty |-> c[2]],
             cmd_pwm_set_duty(c[1], c[2]))

DutyNext ==
    \/ Call_cmd_pwm_set_duty_grid
    \/ WriteFrameUnanswered
    \/ StartReadline
    \/ ReadlinePoll
    \/ ReadlineExpire
    \/ Finish

DutySpec == Init /\ [][DutyNext]_vars

\* chunk counts at both ends of 1..65536 and around every power of two between
ChunkNumGrid ==
    (-2..260) \cup (65270..65540)
    \cup UNION {{Pow2(k) - 1, Pow2(k), Pow2(k) + 1} : k \in 9..17}

\* the calls of cmd_set_chunk_num: one channel with every count of the grid, the
\* channels at and past the ends of 0..15 with a few
ChunkNumCalls ==
    {<<9, n>> : n \in ChunkNumGrid}
    \cup {<<ch, n>> : ch \in {-1, 0, 15, 16}, n \in {0, 1, 65536, 65537}}

Call_cmd_set_chunk_num_grid ==
    \E c \in ChunkNumCalls :
        Call("cmd_set_chunk_num", [ch |-> c[1], chunk_num |-> c[2]],
             cmd_set_chunk_num(c[1], c[2]))

ChunkNumNext ==
    \/ Call_cmd_set_chunk_num_grid
    \/ WriteFrameUnanswered
    \/ StartReadline
    \/ ReadlinePoll
    \/ ReadlineExpire
    \/ Finish

ChunkNumSpec == Init /\ [][ChunkNumNext]_vars

\* ---------------------------------- the two chunk commands on the same handle
\* A caller sets the chunk count of a channel and then requests the chunk stream
\* of that channel with the count less one, on a device that does not answer.
\* tx, rdAt and nReads run over both calls: tx holds the frames written on the
\* handle since it was opened, in order.

\* channels and counts at and one past both ends of 0..15 and 1..2048
ChunkPairCalls == {<<ch, n>> : ch \in -1..16, n \in 0..2049}

\* the first call on the handle: cmd_set_chunk_num(handle, ch, count)
Call_cmd_set_chunk_num_first ==
    /\ op.name = "none"
    /\ \E c \in ChunkPairCalls :
           Call("cmd_set_chunk_num", [ch |-> c[1], chunk_num |-> c[2]],
                cmd_set_chunk_num(c[1], c[2]))

\* the second call, once the first has returned or raised:
\* cmd_adc_chunk_request(handle, ch, count - 1)
Call_cmd_adc_chunk_request_after ==
    /\ pc = "idle" /\ op.name = "cmd_set_chunk_num"
    /\ LET ch == op.a.ch
           chunk_size == op.a.chunk_num - 1
           t == cmd_adc_chunk_request(ch, chunk_size)
       IN  /\ op' = [name |-> "cmd_adc_chunk_request",
                     a |-> [ch |-> ch, chunk_size |-> chunk_size]]
           /\ plan' = t.steps /\ script' = t.steps /\ exc' = t.exc /\ retd' = t.ret
    /\ pc' = "run"
    /\ outcome' = "running" /\ ret' = NoValue
    /\ polled' = FALSE /\ taken' = FALSE /\ waited' = 0 /\ timedOut' = FALSE
    /\ sawBad' = FALSE
    /\ line' = <<>> /\ elapsed' = 0 /\ resp' = <<>>
    /\ rxq' = Stale(rxq) /\ pending' = Stale(pending)
    /\ UNCHANGED <<tx, rdAt, nReads>>

ChunkPairNext ==
    \/ Call_cmd_set_chunk_num_first
    \/ Call_cmd_adc_chunk_request_after
    \/ WriteFrameUnanswered
    \/ StartReadline
    \/ ReadlinePoll
    \/ ReadlineExpire
    \/ Finish

ChunkPairSpec == Init /\ [][ChunkPairNext]_vars

\* selectors of cmd_encoder_ctrl: "all", single channels inside and outside 0..3,
\* the empty collection, collections with duplicates and with a channel outside
EncoderCtrlSels ==
    {SelAll, SelAllUpper, IntSel(0), IntSel(3), IntSel(4), IntSel(-1),
     ListSel(<<>>), ListSel(<<3, 1, 3>>), ListSel(<<2, 4>>)}

Call_cmd_encoder_ctrl_grid ==
    \E chs \in EncoderCtrlSels, inv \in {"None", "True", "False"},
       rst \in BOOLEAN, pre \in BOOLEAN :
        Call("cmd_encoder_ctrl",
             [channels |-> chs, dir_invert |-> inv, do_reset |-> rst, load_preset |-> pre],
             cmd_encoder_ctrl(chs, inv, rst, pre))

EncoderCtrlNext ==
    \/ Call_cmd_encoder_ctrl_grid
    \/ WriteFrameUnanswered
    \/ StartReadline
    \/ ReadlinePoll
    \/ ReadlineExpire
    \/ Finish

EncoderCtrlSpec == Init /\ [][EncoderCtrlNext]_vars

\* ------------------------------------------------ cmd_gpio_read and its reply
\* cmd_gpio_read with _readline taken as one step: it returns the bytes that came
\* within the timeout, up to and including the first line-feed.
GpioReplyBytes == {"5", "a", "F", "g", "*", " ", InvalidByte}

\* what _readline can return: up to MaxLineLen bytes free of line-feeds, with a
\* line-feed at the end or, at the timeout, without
GpioLines ==
    LET bodies == UNION {[1..n -> GpioReplyBytes] : n \in 0..MaxLineLen}
    IN  bodies \cup {Append(b, LF) : b \in bodies}

\* _readline from entry to return, r being the bytes it collected
ReadlineYields ==
    /\ pc = "run" /\ plan # <<>> /\ Head(plan).k = "readline"
    /\ \E r \in GpioLines :
          /\ line' = Own(r)
          /\ resp' = IF KeepsReply(retd) THEN Own(r) ELSE resp
          /\ plan' = DiscardReply(Own(r), Tail(plan))
          /\ sawBad' = (sawBad \/ r # OkLine)
          /\ timedOut' = (timedOut \/ r = <<>> \/ r[Len(r)] # LF)
          /\ taken' = (taken \/ r # <<>>)
    /\ nReads' = nReads + 1
    /\ polled' = TRUE
    /\ UNCHANGED <<pc, op, script, exc, retd, outcome, ret, tx, rdAt, waited, elapsed,
                   rxq, pending>>

GpioReadNext ==
    \/ Call_cmd_gpio_read
    \/ WriteFrameUnanswered
    \/ ReadlineYields
    \/ Finish

GpioReadSpec == Init /\ [][GpioReadNext]_vars

\* ------------------------------------------- get_sampling_command on its own
\* allowed = [1, 2, 4, 8, 16, 32, 64, 128, 256]
allowed == <<1, 2, 4, 8, 16, 32, 64, 128, 256>>

\* allowed.index(x): the 0-based position of the first element equal to x
ListIndex(l, x) ==
    (CHOOSE k \in 1..Len(l) : l[k] = x /\ \A j \in 1..(k - 1) : l[j] # x) - 1

\* get_sampling_command counting positions from 1
M_sampling_command_one_based(fs_ksps, target) ==
    IF fs_ksps \notin SeqRange(allowed) THEN [ok |-> FALSE, s |-> <<>>]
    ELSE IF target \notin {0, 1} THEN [ok |-> FALSE, s |-> <<>>]
    ELSE LET base  == IF target = 0 THEN 0 ELSE 1048576
             index == ListIndex(allowed, fs_ksps) + 1
         IN  [ok |-> TRUE, s |-> <<"*">> \o FormatX(base + index, 8) \o <<"#">>]

\* get_sampling_command: f"*{(base + index):08X}#", ValueError for a rate outside
\* allowed or a target other than 0 and 1
get_sampling_command(fs_ksps, target) ==
    IF fs_ksps \notin SeqRange(allowed) THEN [ok |-> FALSE, s |-> <<>>]
    ELSE IF target \notin {0, 1} THEN [ok |-> FALSE, s |-> <<>>]
    ELSE LET base  == IF target = 0 THEN 0 ELSE 1048576
             index == ListIndex(allowed, fs_ksps)
         IN  [ok |-> TRUE, s |-> <<"*">> \o FormatX(base + index, 8) \o <<"#">>]

SamplingRates == -1..300

SamplingTargets == {-1, 0, 1, 2}

Call_get_sampling_command ==
    /\ pc = "idle"
    /\ pc' = "sampling"
    /\ \E fs \in SamplingRates, target \in SamplingTargets :
          op' = [name |-> "get_sampling_command", a |-> [fs_ksps |-> fs, target |-> target]]
    /\ outcome' = "running" /\ ret' = NoValue
    /\ UNCHANGED <<plan, script, exc, retd, tx, rdAt, nReads, polled, taken, waited,
                   timedOut, sawBad, line, elapsed, resp, rxq, pending>>

Return_get_sampling_command ==
    /\ pc = "sampling"
    /\ pc' = "idle"
    /\ LET r == get_sampling_command(op.a.fs_ksps, op.a.target)
       IN  /\ outcome' = IF r.ok THEN "returned" ELSE "raised"
           /\ ret' = IF r.ok THEN [kind |-> "str", cmds |-> <<r.s>>, raw |-> <<>>, value |-> 0]
                     ELSE NoValue
    /\ UNCHANGED <<op, plan, script, exc, retd, tx, rdAt, nReads, polled, taken, waited,
                   timedOut, sawBad, line, elapsed, resp, rxq, pending>>

SamplingNext == Call_get_sampling_command \/ Return_get_sampling_command

SamplingSpec == Init /\ [][SamplingNext]_vars

\* selectors of cmd_gpio_write_mask: "all", single channels and every list of up to
\* MaxSelLen channels from the ends and the middle of 0..7 and just outside
MaskElems == {-1, 0, 1, 5, 7, 8}

MaskSels ==
    {SelAll, SelAllUpper} \cup {IntSel(i) : i \in MaskElems}
    \cup {ListSel(l) : l \in UNION {[1..n -> MaskElems] : n \in 0..MaxSelLen}}

Call_cmd_gpio_write_mask_grid ==
    \E chs \in MaskSels :
        Call("cmd_gpio_write_mask", [high_channels |-> chs], cmd_gpio_write_mask(chs))

Call_cmd_gpio_write_grid ==
    \E v \in -1..256 : Call("cmd_gpio_write", [value |-> v], cmd_gpio_write(v))

GpioWriteNext ==
    \/ Call_cmd_gpio_write_mask_grid
    \/ Call_cmd_gpio_write_grid
    \/ WriteFrameUnanswered
    \/ StartReadline
    \/ ReadlinePoll
    \/ ReadlineExpire
    \/ Finish

GpioWriteSpec == Init /\ [][GpioWriteNext]_vars

\* ------------------------------------------------------- reading the wire
\* What the device sees: the fields of a frame, decoded from its characters.
HexCharSet == {HexChars[k] : k \in 1..16}

HexDigitVal(c) == (CHOOSE k \in 1..16 : HexChars[k] = c) - 1

RECURSIVE HexVal(_)
HexVal(s) ==
    IF s = <<>> THEN 0
    ELSE 16 * HexVal(SubSeq(s, 1, Len(s) - 1)) + HexDigitVal(s[Len(s)])

WellFormed(f) ==
    /\ Len(f) = 10
    /\ f[1] = "*"
    /\ f[10] = "#"
    /\ \A k \in 2..9 : f[k] \in HexCharSet

IsFrame(f, code, sub, ext, data) ==
    /\ WellFormed(f)
    /\ f[2] = code
    /\ HexVal(SubSeq(f, 3, 4)) = sub
    /\ HexVal(SubSeq(f, 5, 5)) = ext
    /\ HexVal(SubSeq(f, 6, 9)) = data

\* the channels a valid selector names
SelSet(sel, max_ch) ==
    IF sel.t = "str" THEN 0..max_ch
    ELSE IF sel.t = "int" THEN {sel.i}
    ELSE SeqRange(sel.l)

\* the mask with bit i set exactly for the channels i of S
RECURSIVE MaskOf(_)
MaskOf(S) ==
    IF S = {} THEN 0
    ELSE LET c == CHOOSE x \in S : TRUE IN Pow2(c) + MaskOf(S \ {c})

Bit(m, i) == (m \div Pow2(i)) % 2

Returned == pc = "idle" /\ outcome = "returned"

Raised == pc = "idle" /\ outcome = "raised"

WritesOf(steps) ==
    LET ws == SelectSeq(steps, LAMBDA st : st.k = "write")
    IN  [k \in 1..Len(ws) |-> ws[k].f]

\* ------------------------------------------------------------------ claims

\* C1: in every command function but cmd_adc_chunk_request, writes and line reads
\* alternate: when frame i is written exactly i - 1 calls of _readline have been
\* made (and have returned), a line read never runs past its timeout, and at the
\* return as many line reads have been made as frames written.
C1_WritesAndReadsAlternate ==
    op.name # "cmd_adc_chunk_request" =>
        /\ \A i \in 1..Len(tx) : rdAt[i] = i - 1
        /\ nReads <= Len(tx)
        /\ (pc = "readline" => nReads = Len(tx) /\ elapsed <= TimeoutTicks)
        /\ (Returned => nReads = Len(tx))

C1_Witness ==
    /\ Returned
    /\ op.name = "cmd_encoder_preset_32"
    /\ Len(tx) = 8 /\ nReads = 8

\* C2: a call that fails with a validation error has written nothing to the handle,
\* made no line read, asked for no queue status and taken no byte from the receive
\* queue: no prefix of a multi-frame sequence was sent.
C2_ValidationErrorTouchesNothing ==
    (exc /\ outcome \in {"running", "raised"}) =>
        /\ tx = <<>>
        /\ nReads = 0
        /\ ~polled /\ ~taken

C2_Witness ==
    /\ Raised
    /\ op.name = "cmd_set_gpio_pwm_mode"
    /\ op.a.active_channels = SelAll /\ op.a.pwm_channels = IntSel(8)
    /\ rxq # <<>>

\* C3 as stated: cmd_adc_chunk_request writes the one frame (4, ch, 1, chunk_size)
\* and makes no line read, no queue-status poll and takes nothing from the receive
\* queue; and every other command function that returns has attempted a line read.
C3_Original ==
    /\ (Returned /\ op.name = "cmd_adc_chunk_request") =>
          /\ Len(tx) = 1 /\ IsFrame(tx[1], "4", op.a.ch, 1, op.a.chunk_size)
          /\ nReads = 0 /\ ~polled /\ ~taken
    /\ (Returned /\ op.name # "cmd_adc_chunk_request") => nReads >= 1

\* C3, amended: cmd_adc_chunk_request writes the one frame (4, ch, 1, chunk_size)
\* and makes no line read, no queue-status poll and takes nothing from the receive
\* queue; and it is the only command function that returns having written a frame
\* without a line read (a function that returns without any line read and is not
\* cmd_adc_chunk_request has written no frame at all).
C3_ChunkRequestIsFireAndForget ==
    /\ (Returned /\ op.name = "cmd_adc_chunk_request") =>
          /\ Len(tx) = 1 /\ IsFrame(tx[1], "4", op.a.ch, 1, op.a.chunk_size)
          /\ nReads = 0 /\ ~polled /\ ~taken
    /\ (Returned /\ op.name # "cmd_adc_chunk_request" /\ nReads = 0) => tx = <<>>
    /\ (Returned /\ op.name # "cmd_adc_chunk_request" /\ tx # <<>>) => nReads >= 1

C3_Witness ==
    /\ Returned
    /\ op.name = "cmd_adc_chunk_request"
    /\ op.a = [ch |-> 15, chunk_size |-> 2047]
    /\ rxq # <<>>

\* C4 as stated: every byte of the line a command function reads was sent by the
\* device in answer to a frame written by that same call, never in answer to a
\* frame of an earlier call.
C4_ReadsOnlyOwnReply == \A k \in 1..Len(line) : line[k].own

\* what C5 says of every state: a line read never runs past its timeout, a call
\* that has written k frames has waited at most k timeouts, a call never raises
\* once it has started a line read, and a line read that timed out hands back
\* an empty or unterminated value
C5_Bounded ==
    /\ elapsed <= TimeoutTicks
    /\ nReads <= Len(tx)
    /\ waited <= Len(tx) * TimeoutTicks
    /\ (outcome = "raised" => nReads = 0 /\ ~timedOut)
    /\ (Returned /\ timedOut /\ KeepsReply(retd)) =>
          (ret.raw = <<>> \/ ret.raw[Len(ret.raw)] # LF)

\* C5: whatever the device does, a command function that has been entered comes
\* back to its caller; each line read ends when its timeout has elapsed, a call that
\* writes k frames waits at most k timeouts, and a timeout shows as an empty or
\* unterminated value, never as an exception.
C5_TerminatesWithinTimeouts ==
    /\ []C5_Bounded
    /\ ((pc # "idle") ~> (pc = "idle"))

C5_Witness ==
    /\ Returned
    /\ timedOut
    /\ Len(tx) = 3
    /\ waited = 3 * TimeoutTicks

\* C6: replies do not short-circuit a call: the frames written so far followed by
\* the frames still to be written are the frames the call set out to write, whatever
\* lines were read in between; at the return all of them have been written, in order.
C6_RepliesDoNotShortCircuit ==
    /\ tx \o WritesOf(plan) = WritesOf(script)
    /\ (Returned => tx = WritesOf(script))

C6_Witness ==
    /\ Returned
    /\ op.name = "cmd_set_encoder_mode"
    /\ Len(tx) = 3
    /\ sawBad /\ timedOut

\* C7: cmd_encoder_preset_32(ch, value32) that returns has 0 <= value32 <= 0xFFFFFFFF
\* and has written, for the channels c1 < ... < cn of ch (0,1,2,3 for "all"), the
\* frames (A, ci, 2, value32 div 65536) for i = 1..n and then the frames
\* (A, ci, 3, value32 mod 65536) for i = 1..n, one line read after each frame; the
\* list returned is the sequence of the frames written.
C7_Preset32HiThenLo ==
    (Returned /\ op.name = "cmd_encoder_preset_32") =>
        LET ch    == op.a.enc_ch
            v     == op.a.value32
            chans == IF ch.t = "str" THEN <<0, 1, 2, 3>> ELSE <<ch.i>>
            n     == Len(chans)
        IN  /\ 0 <= v.hi /\ v.hi <= 65535
            /\ Len(tx) = 2 * n
            /\ \A k \in 1..n : IsFrame(tx[k], "A", chans[k], 2, v.hi)
            /\ \A k \in 1..n : IsFrame(tx[n + k], "A", chans[k], 3, v.lo)
            /\ nReads = 2 * n
            /\ \A i \in 1..(2 * n) : rdAt[i] = i - 1
            /\ ret.kind = "list" /\ ret.cmds = tx

C7_Witness ==
    /\ Returned
    /\ op.name = "cmd_encoder_preset_32"
    /\ op.a = [enc_ch |-> SelAll, value32 |-> Big(4660, 43981)]
    /\ Len(tx) = 8

\* C8: cmd_set_gpio_pwm_mode(active, pwm) that returns has written exactly two
\* frames: (9, mask of active, 0, 0x0000) and then (A, mask of active, 0, mask of the
\* channels in both pwm and active); every bit of the mode frame's data is a bit of
\* its sub field, and no channel outside active has its PWM bit set.
C8_PwmModeDirectionFirst ==
    (Returned /\ op.name = "cmd_set_gpio_pwm_mode") =>
        LET act == SelSet(op.a.active_channels, 7)
            pwm == SelSet(op.a.pwm_channels, 7)
        IN  /\ Len(tx) = 2
            /\ IsFrame(tx[1], "9", MaskOf(act), 0, 0)
            /\ IsFrame(tx[2], "A", MaskOf(act), 0, MaskOf(pwm \cap act))
            /\ \A b \in 0..15 :
                  Bit(HexVal(SubSeq(tx[2], 6, 9)), b) = 1 =>
                      /\ Bit(HexVal(SubSeq(tx[2], 3, 4)), b) = 1
                      /\ b \in act
            /\ rdAt = <<0, 1>> /\ nReads = 2

C8_Witness ==
    /\ Returned
    /\ op.name = "cmd_set_gpio_pwm_mode"
    /\ op.a = [active_channels |-> ListSel(<<2, 0, 2>>), pwm_channels |-> SelAll]
    /\ IsFrame(tx[2], "A", 5, 0, 5)

\* C9: cmd_set_encoder_mode(channels), with m the mask of the channels, writes
\* (9, m, 0, m), then (A, m, 0, 0x0000), then (A, m, 1, 0x0000), and nothing else;
\* the encoder-enable frame is written only as the third frame, after two line reads.
C9_EncoderModeSequence ==
    op.name = "cmd_set_encoder_mode" =>
        LET m == MaskOf(SelSet(op.a.channels, 3))
        IN  /\ Len(tx) <= 3
            /\ Len(tx) >= 1 => IsFrame(tx[1], "9", m, 0, m)
            /\ Len(tx) >= 2 => IsFrame(tx[2], "A", m, 0, 0) /\ rdAt[2] = 1
            /\ Len(tx) >= 3 => IsFrame(tx[3], "A", m, 1, 0) /\ rdAt[3] = 2
            /\ \A i \in 1..Len(tx) :
                  (tx[i][2] = "A" /\ HexVal(SubSeq(tx[i], 5, 5)) = 1) => i = 3
            /\ (Returned => Len(tx) = 3 /\ nReads = 3 /\ ret.cmds = <<tx[3]>>)

C9_Witness ==
    /\ Returned
    /\ op.name = "cmd_set_encoder_mode"
    /\ op.a = [channels |-> ListSel(<<3, 1>>)]
    /\ IsFrame(tx[3], "A", 10, 1, 0)

\* C10: for every code in 0..9, A..F, sub in 0..0xFF, ext in 0..0xF and data in
\* 0..0xFFFF, _fmt_cmd returns (its length check does not raise) exactly 10
\* characters: '*', the code, sub as 2 uppercase zero-padded hex digits, ext as 1,
\* data as 4, '#'.
C10_FrameIsTenCharacters ==
    (pc = "idle" /\ op.name = "_fmt_cmd"
       /\ op.a.C \in HexCharSet
       /\ 0 <= op.a.HH /\ op.a.HH <= 255
       /\ 0 <= op.a.E /\ op.a.E <= 15
       /\ 0 <= op.a.DDDD /\ op.a.DDDD <= 65535) =>
        /\ outcome = "returned"
        /\ Len(ret.cmds) = 1
        /\ Len(ret.cmds[1]) = 10
        /\ IsFrame(ret.cmds[1], op.a.C, op.a.HH, op.a.E, op.a.DDDD)

C10_Witness ==
    /\ pc = "idle" /\ op.name = "_fmt_cmd"
    /\ op.a = [C |-> "A", HH |-> 10, E |-> 15, DDDD |-> 255]
    /\ ret.cmds = << <<"*", "A", "0", "A", "F", "0", "0", "F", "F", "#">> >>

\* C11 as stated: when read_exact's timeout elapses before size bytes are
\* collected, the call returns the bytes it collected so far.
C11_Original ==
    (pc = "idle" /\ op.name = "read_exact" /\ outcome = "returned" /\ timedOut) =>
        /\ ret.kind = "bytes"
        /\ ret.raw = Chars(line)

\* C11, amended: when read_exact's timeout elapses before size bytes are
\* collected, the call returns None: the bytes it took from the receive queue are
\* dropped with the buffer and not handed to the caller; it returns bytes only when
\* it has collected exactly size of them.
C11_TimeoutReturnsNone ==
    (pc = "idle" /\ op.name = "read_exact" /\ outcome = "returned") =>
        /\ timedOut => (ret.kind = "None" /\ ret.raw = <<>> /\ Len(line) < op.a.size)
        /\ ~timedOut => (ret.kind = "bytes" /\ ret.raw = Chars(line)
                          /\ Len(ret.raw) = op.a.size)

C11_Witness ==
    /\ pc = "idle" /\ op.name = "read_exact" /\ outcome = "returned" /\ timedOut
    /\ op.a.size = 3 /\ Len(line) = 2 /\ taken
    /\ ret.kind = "None"

\* the selectors of the data model: "all" in any letter case, an integer, a
\* collection of integers
SpellsAll(x) ==
    /\ Len(x) = 3
    /\ x[1] \in {"a", "A"} /\ x[2] \in {"l", "L"} /\ x[3] \in {"l", "L"}

SupportedShape(sel) == sel.t \in {"int", "list"} \/ (sel.t = "str" /\ SpellsAll(sel.s))

NormDone == pc = "idle" /\ op.name = "_normalize_channels"

StrictlyAscending(l) == \A k \in 1..(Len(l) - 1) : l[k] < l[k + 1]

\* C12: _normalize_channels fails exactly when the selector has an unsupported
\* shape or one of its elements lies outside 0..max_ch, in the latter case naming
\* an out-of-range element of the selector; when it returns, the list is strictly
\* ascending, within 0..max_ch, and its elements are the selector's elements.
C12_NormalizeValidates ==
    NormDone =>
        LET sel  == op.a.chs
            B    == op.a.max_ch
            elts == SelSet(sel, B)
            out  == {c \in elts : ~(0 <= c /\ c <= B)}
        IN  /\ (outcome = "raised") <=> (~SupportedShape(sel) \/ out # {})
            /\ (outcome = "raised" /\ SupportedShape(sel)) => ret.bad \in out
            /\ (outcome = "returned") =>
                  /\ StrictlyAscending(ret.v)
                  /\ SeqRange(ret.v) \subseteq 0..B
                  /\ SeqRange(ret.v) = elts

\* C13: normalizing the list _normalize_channels returned, with the same bound,
\* returns the same list; and "all" in any letter case gives 0, 1, ..., max_ch.
C13_NormalizeIdempotent ==
    (NormDone /\ outcome = "returned") =>
        LET again == _normalize_channels(ListSel(ret.v), op.a.max_ch)
        IN  /\ again.ok /\ again.v = ret.v
            /\ (op.a.chs.t = "str" /\ SpellsAll(op.a.chs.s)) =>
                  /\ Len(ret.v) = op.a.max_ch + 1
                  /\ \A k \in 1..Len(ret.v) : ret.v[k] = k - 1

C13_Witness ==
    /\ NormDone /\ outcome = "returned"
    /\ op.a.chs = ListSel(<<3, 0, 3>>) /\ op.a.max_ch = 3
    /\ ret.v = <<0, 3>>

\* the frames written are one (code, sub = channel, ext, data) frame per channel of
\* S, in ascending order of channel
OneFramePerChannel(S, code, ext, data) ==
    LET chs == SortSet(S)
    IN  /\ Len(tx) = Len(chs)
        /\ \A k \in 1..Len(chs) : IsFrame(tx[k], code, chs[k], ext, data)

\* C14: cmd_pwm_set_frequency with a selector that normalizes (channels 0..7):
\* 0 <= freq_hz <= 4095 gives data = freq_hz, a multiple of 1000 up to 97000 gives
\* data = 0x8000 + freq_hz / 1000, one frame (B, channel, 0, data) per channel in
\* ascending order; every other frequency fails with a validation error.
C14_PwmFrequencyEncoding ==
    (pc = "idle" /\ op.name = "cmd_pwm_set_frequency"
        /\ SelSet(op.a.channels, 7) \subseteq 0..7) =>
        LET f == op.a.freq_hz
            S == SelSet(op.a.channels, 7)
        IN  IF 0 <= f /\ f <= 4095
            THEN Returned /\ OneFramePerChannel(S, "B", 0, f)
            ELSE IF f > 0 /\ f % 1000 = 0 /\ f \div 1000 <= 97
            THEN Returned /\ OneFramePerChannel(S, "B", 0, 32768 + (f \div 1000))
            ELSE Raised

\* the data field of a frame
DataOf(f) == HexVal(SubSeq(f, 6, 9))

\* duty a <= duty b, as fractions with positive denominators
DutyLeq(a, b) == a.n * b.d <= b.n * a.d

\* the word C15 gives for a duty n/d in [0, 1]
DutyWord(duty) ==
    LET n == duty.n
        d == duty.d
        fl == (n * 1024) \div d
        near == (2 * n - d) * 1024 < 2 * d /\ (d - 2 * n) * 1024 < 2 * d
    IN  IF n = 0 THEN 0
        ELSE IF n = d THEN 1023
        ELSE IF near THEN 511
        ELSE IF fl < 1 THEN 1
        ELSE IF fl > 1022 THEN 1022
        ELSE fl

DutyInRange(duty) == 0 <= duty.n /\ duty.n <= duty.d

\* C15: cmd_pwm_set_duty fails with a validation error for a duty outside [0, 1];
\* otherwise every frame (C, channel, 0, word) carries the word: 0 for duty 0,
\* 0x03FF for duty 1, 0x01FF whenever |duty - 0.5| < 1/1024, else floor(duty * 1024)
\* clamped to 0x0001..0x03FE; duty 0.1 gives a word strictly between 0x0001 and
\* 0x03FE; and no smaller duty of the grid gives a larger word.
C15_DutyWord ==
    (pc = "idle" /\ op.name = "cmd_pwm_set_duty") =>
        LET duty == op.a.duty
        IN  IF ~DutyInRange(duty) THEN Raised /\ tx = <<>>
            ELSE /\ Returned
                 /\ OneFramePerChannel(SelSet(op.a.channels, 7), "C", 0, DutyWord(duty))
                 /\ (duty = Duty(1, 10) => 1 < DataOf(tx[1]) /\ DataOf(tx[1]) < 1022)
                 /\ \A e \in DutyGrid :
                       (DutyInRange(e) /\ DutyLeq(e, duty)) => DutyWord(e) <= DataOf(tx[1])

C15_Witness ==
    /\ Returned /\ op.name = "cmd_pwm_set_duty"
    /\ op.a.duty = Duty(1025, 2048)
    /\ Len(tx) = 2 /\ DataOf(tx[1]) = 511 /\ DataOf(tx[2]) = 511

\* C16: cmd_set_chunk_num with ch in 0..15 writes the one frame (4, ch, 1,
\* chunk_num - 1) for every chunk_num in 1..65536 (1 -> 0x0000, 65536 -> 0xFFFF),
\* and fails with a validation error, writing nothing, for every other chunk_num.
C16_ChunkNumMinusOne ==
    (pc = "idle" /\ op.name = "cmd_set_chunk_num" /\ op.a.ch \in 0..15) =>
        LET n == op.a.chunk_num
        IN  IF 1 <= n /\ n <= 65536
            THEN /\ Returned
                 /\ Len(tx) = 1
                 /\ IsFrame(tx[1], "4", op.a.ch, 1, n - 1)
                 /\ (n = 1 => SubSeq(tx[1], 6, 9) = <<"0", "0", "0", "0">>)
                 /\ (n = 65536 => SubSeq(tx[1], 6, 9) = <<"F", "F", "F", "F">>)
            ELSE Raised /\ tx = <<>>

C16_Witness ==
    /\ Returned /\ op.name = "cmd_set_chunk_num"
    /\ op.a.ch = 15 /\ op.a.chunk_num = 65536
    /\ tx = <<<<"*", "4", "0", "F", "1", "F", "F", "F", "F", "#">>>>

\* C17: cmd_encoder_ctrl with do_reset and load_preset both requested fails with a
\* validation error for every selector, nothing written; otherwise, for a selector
\* that normalizes (channels 0..3), it writes one frame (A, channel, 4, data) per
\* channel in ascending order with data = direction bit + 2 (do_reset) + 4
\* (load_preset); no frame ever written has bits 1 and 2 both set, and with neither
\* requested data is 0x0000 (dir_invert false or unspecified) or 0x0001 (true).
C17_EncoderCtrlFlags ==
    op.name = "cmd_encoder_ctrl" =>
        LET a    == op.a
            data == (IF a.dir_invert = "True" THEN 1 ELSE 0)
                    + (IF a.do_reset THEN 2 ELSE 0) + (IF a.load_preset THEN 4 ELSE 0)
        IN  /\ \A k \in 1..Len(tx) :
                  ~(Bit(DataOf(tx[k]), 1) = 1 /\ Bit(DataOf(tx[k]), 2) = 1)
            /\ (a.do_reset /\ a.load_preset) => (tx = <<>> /\ (pc = "idle" => Raised))
            /\ (pc = "idle" /\ ~(a.do_reset /\ a.load_preset)
                  /\ SelSet(a.channels, 3) \subseteq 0..3) =>
                  /\ Returned
                  /\ OneFramePerChannel(SelSet(a.channels, 3), "A", 4, data)
                  /\ (~a.do_reset /\ ~a.load_preset) =>
                        \A k \in 1..Len(tx) :
                            SubSeq(tx[k], 6, 9) =
                                IF a.dir_invert = "True" THEN <<"0", "0", "0", "1">>
                                ELSE <<"0", "0", "0", "0">>

C17_Witness ==
    /\ Returned /\ op.name = "cmd_encoder_ctrl"
    /\ op.a.channels = ListSel(<<3, 1, 3>>)
    /\ op.a.dir_invert = "True" /\ op.a.load_preset /\ ~op.a.do_reset
    /\ Len(tx) = 2 /\ DataOf(tx[1]) = 5 /\ DataOf(tx[2]) = 5

\* hexadecimal characters in either letter case, and their values
AnyCaseHex ==
    <<{"0"}, {"1"}, {"2"}, {"3"}, {"4"}, {"5"}, {"6"}, {"7"}, {"8"}, {"9"},
      {"A", "a"}, {"B", "b"}, {"C", "c"}, {"D", "d"}, {"E", "e"}, {"F", "f"}>>

IsAnyCaseHex(c) == \E v \in 1..16 : c \in AnyCaseHex[v]

AnyCaseHexVal(c) == (CHOOSE v \in 1..16 : c \in AnyCaseHex[v]) - 1

\* C18: cmd_gpio_read never raises, whatever the reply: it writes *D000000#, makes
\* one line read and returns the bytes read as they are (no bytes when nothing came
\* within the timeout); the value is -1 exactly when the reply holds fewer than two
\* hexadecimal characters, else the value, in 0..255, of the last two of them.
C18_GpioReadParse ==
    (pc = "idle" /\ op.name = "cmd_gpio_read") =>
        LET hx == SelectSeq(ret.raw, IsAnyCaseHex)
            n  == Len(hx)
        IN  /\ Returned
            /\ tx = <<<<"*", "D", "0", "0", "0", "0", "0", "0", "0", "#">>>>
            /\ nReads = 1
            /\ ret.cmds = tx
            /\ ret.raw = Chars(line)
            /\ (~taken => ret.raw = <<>>)
            /\ (ret.value = -1) <=> (n < 2)
            /\ (n >= 2) =>
                  /\ ret.value = 16 * AnyCaseHexVal(hx[n - 1]) + AnyCaseHexVal(hx[n])
                  /\ ret.value \in 0..255

C18_Witness ==
    /\ Returned /\ op.name = "cmd_gpio_read"
    /\ ret.raw = <<"5", "a", "F", LF>>
    /\ ret.value = 175

SamplingDone == pc = "idle" /\ op.name = "get_sampling_command"

\* the 8-digit body of a sampling frame
BodyOf(f) == SubSeq(f, 2, 9)

IsSamplingFrame(f) ==
    /\ Len(f) = 10 /\ f[1] = "*" /\ f[10] = "#"
    /\ \A k \in 2..9 : f[k] \in HexCharSet

SupportedRates == {Pow2(k) : k \in 0..8}

\* C19 as stated: fs = 64 gives the body 00000005 for target 0 and 00100005 for
\* target 1; a rate outside the set or a target other than 0 and 1 is a
\* validation error.
C19_Original ==
    SamplingDone =>
        LET fs == op.a.fs_ksps
            tg == op.a.target
        IN  IF fs \in SupportedRates /\ tg \in {0, 1}
            THEN /\ outcome = "returned"
                 /\ (fs = 64 /\ tg = 0) =>
                       BodyOf(ret.cmds[1]) = <<"0", "0", "0", "0", "0", "0", "0", "5">>
                 /\ (fs = 64 /\ tg = 1) =>
                       BodyOf(ret.cmds[1]) = <<"0", "0", "1", "0", "0", "0", "0", "5">>
            ELSE outcome = "raised"

\* C19, amended: for a rate 2^k of {1, 2, 4, ..., 256} and a target 0 or 1 the frame
\* is * + 8 hexadecimal digits + # with body = base + k, k the position of the rate
\* counted from 0 and base 0x00000000 or 0x00100000: fs = 64 gives 00000006 for
\* target 0 and 00100006 for target 1; any other rate or target is a validation error.
C19_SamplingBody ==
    SamplingDone =>
        LET fs == op.a.fs_ksps
            tg == op.a.target
        IN  IF fs \in SupportedRates /\ tg \in {0, 1}
            THEN /\ outcome = "returned"
                 /\ IsSamplingFrame(ret.cmds[1])
                 /\ \E k \in 0..8 :
                       /\ fs = Pow2(k)
                       /\ HexVal(BodyOf(ret.cmds[1])) = (IF tg = 0 THEN 0 ELSE 1048576) + k
                 /\ (fs = 64 /\ tg = 0) =>
                       BodyOf(ret.cmds[1]) = <<"0", "0", "0", "0", "0", "0", "0", "6">>
                 /\ (fs = 64 /\ tg = 1) =>
                       BodyOf(ret.cmds[1]) = <<"0", "0", "1", "0", "0", "0", "0", "6">>
            ELSE outcome = "raised"

C19_Witness ==
    /\ SamplingDone /\ outcome = "returned"
    /\ op.a.fs_ksps = 64 /\ op.a.target = 1
    /\ ret.cmds = <<<<"*", "0", "0", "1", "0", "0", "0", "0", "6", "#">>>>

\* C20: cmd_gpio_write_mask with a valid selector over channels 0..7 does what
\* cmd_gpio_write(mask) does, bit i of mask set exactly when channel i is selected:
\* the single frame (E, 0x00, 0, mask) and one line read; "all" gives 0xFF, the
\* empty collection 0x00, and repeating a channel changes nothing.
C20_WriteMaskIsWrite ==
    (pc = "idle" /\ op.name = "cmd_gpio_write_mask"
        /\ SupportedShape(op.a.high_channels)
        /\ SelSet(op.a.high_channels, 7) \subseteq 0..7) =>
        LET S    == SelSet(op.a.high_channels, 7)
            mask == MaskOf(S)
        IN  /\ Returned
            /\ Len(tx) = 1
            /\ IsFrame(tx[1], "E", 0, 0, mask)
            /\ \A c \in 0..15 : (Bit(DataOf(tx[1]), c) = 1) <=> (c \in S)
            /\ script = cmd_gpio_write(mask).steps
            /\ tx = WritesOf(cmd_gpio_write(mask).steps)
            /\ ret.cmds = cmd_gpio_write(mask).ret.cmds
            /\ (op.a.high_channels.t = "str" => DataOf(tx[1]) = 255)
            /\ (S = {} => DataOf(tx[1]) = 0)

C20_Witness ==
    /\ Returned /\ op.name = "cmd_gpio_write_mask"
    /\ op.a.high_channels = ListSel(<<7, 0, 7>>)
    /\ tx = <<<<"*", "E", "0", "0", "0", "0", "0", "8", "1", "#">>>>

\* a is a prefix of b
IsPrefix(a, b) == Len(a) <= Len(b) /\ SubSeq(b, 1, Len(a)) = a

\* what C21 says of every state: a line-feed is never followed by another byte in
\* the bytes _readline holds, it holds none while it is still looping, and the
\* functions that keep the reply hold exactly the bytes _readline returned
C21_LineShape ==
    /\ \A k \in 1..(Len(line) - 1) : line[k].c # LF
    /\ (pc = "readline" => \A k \in 1..Len(line) : line[k].c # LF)
    /\ (pc # "readline" /\ nReads >= 1 /\ KeepsReply(retd)) => resp = line

\* what C21 says of every step: inside _readline the bytes read so far followed by
\* the bytes queued change only by an arrival at the end, at most one byte moves
\* from the queue to the line, and _readline returns either at the timeout with the
\* bytes read so far or with the line-feed it has just read; outside _readline
\* nothing is removed from the queue
C21_Step ==
    LET arrived  == Chars(line) \o Chars(rxq)
        arrived2 == Chars(line') \o Chars(rxq')
    IN  /\ (pc = "readline") =>
              /\ IsPrefix(arrived, arrived2) /\ Len(arrived2) <= Len(arrived) + 1
              /\ IsPrefix(line, line') /\ Len(line') <= Len(line) + 1
              /\ (pc' # "readline") =>
                    \/ line' = line /\ elapsed >= TimeoutTicks /\ rxq' = rxq
                    \/ /\ rxq # <<>> /\ Head(rxq).c = LF
                       /\ line' = Append(line, Head(rxq))
                       /\ rxq' = Tail(rxq)
        /\ (pc # "readline") => IsPrefix(Chars(rxq), Chars(rxq'))

\* C21: _readline takes bytes from the receive queue one at a time, in arrival
\* order, and stops at the first line-feed: the bytes it returns are a prefix of the
\* bytes that arrived, a line-feed can only be the last of them, the bytes after the
\* first line-feed stay queued, and at the timeout it returns the unterminated,
\* possibly empty, bytes read so far.
C21_ReadlineStopsAtLineFeed == []C21_LineShape /\ [][C21_Step]_vars

C21_Witness ==
    /\ pc = "run" /\ nReads >= 1
    /\ Chars(line) = <<"K", LF>>
    /\ rxq # <<>>

\* what C22 says of every state: read_exact never holds more than size bytes, with
\* size = 0 it neither polls nor reads, and when it completes it returns the size
\* bytes it holds
C22_ExactShape ==
    op.name = "read_exact" =>
        /\ Len(line) <= op.a.size
        /\ (op.a.size = 0 => ~polled /\ ~taken /\ line = <<>>)
        /\ (pc = "idle" /\ outcome = "returned" /\ ~timedOut) =>
              /\ ret.kind = "bytes"
              /\ ret.raw = Chars(line)
              /\ Len(ret.raw) = op.a.size

\* what C22 says of every step: inside read_exact the bytes collected followed by
\* the bytes queued change only by an arrival at the end, whatever the number of
\* bytes a read moves, a read takes at most size - len(buf) bytes, and the return
\* takes nothing
C22_Step ==
    LET arrived  == Chars(line) \o Chars(rxq)
        arrived2 == Chars(line') \o Chars(rxq')
    IN  (pc = "read_exact") =>
            /\ IsPrefix(arrived, arrived2)
            /\ IsPrefix(line, line')
            /\ Len(rxq) - Len(rxq') <= op.a.size - Len(line)
            /\ (pc' # "read_exact") => (line' = line /\ rxq' = rxq)

\* C22: read_exact, when it completes, returns exactly size bytes, the first size
\* bytes that arrived, in arrival order, however the arrival was split; every read
\* asks for at most size minus the bytes already collected, so no more than size
\* bytes leave the receive queue; size = 0 returns no bytes without touching the
\* transport.
C22_ReadExactTakesSize == []C22_ExactShape /\ [][C22_Step]_vars

C22_Witness ==
    /\ pc = "idle" /\ op.name = "read_exact" /\ outcome = "returned" /\ ~timedOut
    /\ op.a.size = 3 /\ Chars(line) = <<"0", "1", "1">> /\ ret.raw = Chars(line)
    /\ elapsed = 2
    /\ rxq # <<>>

\* C23: for every channel ch in 0..15 and every count in 1..2048,
\* cmd_set_chunk_num(ch, count) and cmd_adc_chunk_request(ch, count - 1) both
\* return and write the byte-identical frame (code 4, sub ch, ext 1, data
\* count - 1) and return it as their string; the former then reads one line, the
\* latter reads nothing (no line read, no queue-status poll, nothing taken from the
\* receive queue).
C23_SameFrameOnTheWire ==
    /\ (pc = "idle" /\ op.name = "cmd_set_chunk_num"
            /\ op.a.ch \in 0..15 /\ op.a.chunk_num \in 1..2048) =>
          /\ Returned
          /\ Len(tx) = 1 /\ rdAt = <<0>> /\ nReads = 1
          /\ IsFrame(tx[1], "4", op.a.ch, 1, op.a.chunk_num - 1)
          /\ ret.kind = "str" /\ ret.cmds = <<tx[1]>>
    /\ (pc = "idle" /\ op.name = "cmd_adc_chunk_request"
            /\ op.a.ch \in 0..15 /\ op.a.chunk_size + 1 \in 1..2048) =>
          /\ Returned
          /\ Len(tx) = 2 /\ tx[2] = tx[1]
          /\ IsFrame(tx[2], "4", op.a.ch, 1, op.a.chunk_size)
          /\ rdAt = <<0, 1>> /\ nReads = 1
          /\ ~polled /\ ~taken
          /\ ret.kind = "str" /\ ret.cmds = <<tx[2]>>

C23_Witness ==
    /\ Returned /\ op.name = "cmd_adc_chunk_request"
    /\ op.a = [ch |-> 15, chunk_size |-> 2047]
    /\ tx = << <<"*", "4", "0", "F", "1", "0", "7", "F", "F", "#">>,
               <<"*", "4", "0", "F", "1", "0", "7", "F", "F", "#">> >>
    /\ rdAt = <<0, 1>> /\ nReads = 1

====
